---- MODULE Spec2Model ----
(***************************************************************************)
(* Opening-range-breakout universe algorithm (equity and options           *)
(* execution): the scan that builds the entry orders, and the position     *)
(* lifecycle driven by order events, bar updates and the two scheduled     *)
(* session events.                                                         *)
(*                                                                         *)
(* Units.  Prices and money are integers in cents (one tick = 1 cent).     *)
(* Parameters that are fractions in the source are held in hundredths      *)
(* (0.10 -> 10, 1.5 -> 150); x * p / 100 is written Pct(x, p).  ATR values *)
(* are multiples of 100 cents so that every product is exact.              *)
(* Times are integers date * DayTicks + minute.                            *)
(***************************************************************************)
EXTENDS Integers, Sequences, FiniteSets, TLC

VARIABLES
    cfg,             \* the parameters read in initialize()
    universe,        \* self._universe.selected
    is_warming_up,   \* self.is_warming_up
    portfolio,       \* total_portfolio_value, margin_remaining, margin_drop
    atr,             \* per symbol: the daily ATR indicator (is_ready, value)
    volume_sma,      \* per symbol: the window of the first-minutes volume SMA
    price,           \* per symbol: the current price of the security
    minute_history,  \* per symbol: the minute bars self.history would return
    daily_close,     \* per symbol: the prior close of the daily history, or None
    submit_fails,    \* symbols whose first entry submission raises
    sec,             \* per symbol: the attributes the algorithm keeps on the security
    selected,        \* self._selected
    orders,          \* the platform's order table; an order id is an index
    holdings,        \* per symbol: self.portfolio[symbol].quantity
    option_chain,    \* per symbol: the contracts data.option_chains delivers
    option_holdings, \* per contract: self.portfolio[contract].quantity
    time,            \* self.time
    phase,           \* position of the session's schedule
    bar_seen,        \* whether on_data has run for the current bar
    lastEvent,       \* the handler that ran last, and the symbol it concerned
    scan             \* what the last scan read and produced

vars == <<cfg, universe, is_warming_up, portfolio, atr, volume_sma, price,
          minute_history, daily_close, submit_fails, sec, selected, orders,
          holdings, option_chain, option_holdings, time, phase, bar_seen,
          lastEvent, scan>>

-----------------------------------------------------------------------------
(* Values and bounds *)

None == -1

Symbols == {1, 2}

DayTicks == 10

MaxMinute == 6

MaxDays == 2

Pct(x, p) == (x * p) \div 100

Abs(x) == IF x < 0 THEN -x ELSE x

Max2(a, b) == IF a >= b THEN a ELSE b

Min2(a, b) == IF a <= b THEN a ELSE b

SetMax(S) == CHOOSE x \in S : \A y \in S : y <= x

SetMin(S) == CHOOSE x \in S : \A y \in S : x <= y

DateOf(t) == t \div DayTicks

MinuteOf(t) == t % DayTicks

\* The parameters with the defaults of initialize(); indicator_period and
\* opening_range_minutes are scaled down to keep the histories small.
DefaultConfig ==
    [ indicator_period           |-> 1,
      stop_loss_atr_distance     |-> 50,
      stop_loss_risk_size        |-> 1,
      max_positions              |-> 8,
      opening_range_minutes      |-> 2,
      entry_buffer_atr           |-> 10,
      leverage                   |-> 4,
      atr_price_floor            |-> 1,
      breakeven_trigger_R        |-> 100,
      trail_ATR_mult             |-> 150,
      margin_buffer              |-> 90,
      retry_fraction             |-> 50,
      trail_update_threshold_atr |-> 25,
      trail_min_ticks            |-> 2,
      rvol_threshold             |-> 180,
      long_only                  |-> TRUE,
      gap_min_pct                |-> 0,
      use_options                |-> FALSE,
      option_use_debit_spread    |-> FALSE,
      option_max_spread_ticks    |-> 10,
      option_min_oi              |-> 200,
      option_dte_max             |-> 7,
      confirm_delay_min          |-> 1,
      confirm_bars               |-> 1 ]

-----------------------------------------------------------------------------
(* Housekeeping *)

\* e.relative_volume = None
RvolNone == [is_none |-> TRUE, num |-> 0, den |-> 1]

\* on_securities_changed: the state a security starts with.
NewSecurity ==
    [ entry_ticket |-> None, stop_loss_ticket |-> None, tp_ticket |-> None,
      entry_price |-> None, initial_stop |-> None, current_stop |-> None,
      oneR |-> None, moved_to_breakeven |-> FALSE, entry_time |-> None,
      half_qty |-> 0, high_water |-> None, low_water |-> None,
      last_stop_update_time |-> None,
      relative_volume |-> RvolNone,
      pending_dir |-> 0, pending_entry |-> None, pending_stop |-> None,
      confirm_count |-> 0, confirm_ready_time |-> None,
      option_long |-> None, option_short |-> None, option_qty |-> 0 ]

\* _reset_tickets(sec)
ResetTickets(e) ==
    [ e EXCEPT !.entry_ticket = None, !.stop_loss_ticket = None, !.tp_ticket = None,
               !.entry_price = None, !.initial_stop = None, !.current_stop = None,
               !.oneR = None, !.moved_to_breakeven = FALSE, !.entry_time = None,
               !.half_qty = 0, !.high_water = None, !.low_water = None,
               !.last_stop_update_time = None ]

-----------------------------------------------------------------------------
(* The scan: opening range and relative volume *)

RECURSIVE SortedSeq(_)
\* The elements of a set of integers in ascending order.
SortedSeq(S) ==
    IF S = {} THEN <<>> ELSE <<SetMin(S)>> \o SortedSeq(S \ {SetMin(S)})

\* self.history(symbols, n, Resolution.MINUTE): one row per (symbol, time),
\* grouped by symbol; a symbol with k bars has the k latest times of the window.
RECURSIVE HistoryRows(_, _, _)
HistoryRows(h, syms, n) ==
    IF syms = <<>> THEN <<>>
    ELSE LET s == Head(syms)
             k == Len(h[s])
         IN  [i \in 1..k |->
                 [symbol |-> s, time |-> n - k + i,
                  open |-> h[s][i].open, high |-> h[s][i].high,
                  low |-> h[s][i].low, close |-> h[s][i].close,
                  volume |-> h[s][i].volume]]
             \o HistoryRows(h, Tail(syms), n)

\* DataFrame.tail(n): the last n rows of the whole frame.
FrameTail(rows, n) ==
    IF Len(rows) <= n THEN rows ELSE SubSeq(rows, Len(rows) - n + 1, Len(rows))

\* The columns of frame.unstack(0): the symbols that have a row.
FrameSymbols(rows) == {rows[i].symbol : i \in DOMAIN rows}

\* The index of frame.unstack(0): the times that have a row.
FrameTimes(rows) == {rows[i].time : i \in DOMAIN rows}

RowsOf(rows, s) == {i \in DOMAIN rows : rows[i].symbol = s}

RECURSIVE SumVolume(_, _)
SumVolume(rows, I) ==
    IF I = {} THEN 0
    ELSE LET i == CHOOSE j \in I : TRUE
         IN  rows[i].volume + SumVolume(rows, I \ {i})

\* minute_tail.volume.unstack(0).sum()
VolumeSum(rows, s) == SumVolume(rows, RowsOf(rows, s))

\* open_df.iloc[0]: the row of the first time of the frame; NaN (None) for a
\* symbol with no bar at that time.
OpenBySymbol(rows, s) ==
    LET t0 == SetMin(FrameTimes(rows))
        I  == {i \in RowsOf(rows, s) : rows[i].time = t0}
    IN  IF I = {} THEN None ELSE rows[CHOOSE i \in I : TRUE].open

\* close_df.iloc[-1]: the row of the last time of the frame.
CloseBySymbol(rows, s) ==
    LET t1 == SetMax(FrameTimes(rows))
        I  == {i \in RowsOf(rows, s) : rows[i].time = t1}
    IN  IF I = {} THEN None ELSE rows[CHOOSE i \in I : TRUE].close

\* high_df.max()
HighBySymbol(rows, s) == SetMax({rows[i].high : i \in RowsOf(rows, s)})

\* low_df.min()
LowBySymbol(rows, s) == SetMin({rows[i].low : i \in RowsOf(rows, s)})

\* SimpleMovingAverage: is_ready once the window holds indicator_period samples.
SmaIsReady(w) == Len(w) >= cfg.indicator_period

RECURSIVE SeqSum(_)
SeqSum(w) == IF w = <<>> THEN 0 ELSE Head(w) + SeqSum(Tail(w))

\* volume_sma.update(time, first5_vol)
SmaUpdate(w, v) ==
    LET w2 == Append(w, v)
    IN  IF Len(w2) > cfg.indicator_period THEN Tail(w2) ELSE w2

\* first5_vol / volume_sma.current.value, kept as a fraction num/den; None
\* when the baseline is not ready.
RelativeVolume(first5_vol, w) ==
    IF SmaIsReady(w)
    THEN [is_none |-> FALSE, num |-> first5_vol * Len(w), den |-> SeqSum(w)]
    ELSE RvolNone

\* e.relative_volume is not None and e.relative_volume > self._rvol_threshold
RvolAbove(rv) == ~rv.is_none /\ rv.num * 100 > cfg.rvol_threshold * rv.den

RvolLess(a, b) == a.num * b.den < b.num * a.den

RECURSIVE InsertByRvol(_, _, _)
\* Insert s after every element whose RVOL is not greater (a stable sort step).
InsertByRvol(sorted, s, rv) ==
    IF sorted = <<>> THEN <<s>>
    ELSE IF RvolLess(rv[s], rv[Head(sorted)]) THEN <<s>> \o sorted
         ELSE <<Head(sorted)>> \o InsertByRvol(Tail(sorted), s, rv)

RECURSIVE SortByRvol(_, _)
\* sorted(equities, key=lambda e: e.relative_volume)
SortByRvol(syms, rv) ==
    IF syms = <<>> THEN <<>>
    ELSE InsertByRvol(SortByRvol(SubSeq(syms, 1, Len(syms) - 1), rv), syms[Len(syms)], rv)

\* sorted(...)[-self._max_positions:]
TopByRvol(syms, rv) == FrameTail(SortByRvol(syms, rv), cfg.max_positions)

SeqToSet(q) == {q[i] : i \in DOMAIN q}

RECURSIVE FilterSeq(_, _)
\* The elements of q that are in S, in the order of q.
FilterSeq(q, S) ==
    IF q = <<>> THEN <<>>
    ELSE (IF Head(q) \in S THEN <<Head(q)>> ELSE <<>>) \o FilterSeq(Tail(q), S)

\* gap_passes(sym): prev is the prior close per symbol of the daily history of
\* the RVOL-ranked equities, None where the lookup fails.
GapPasses(s, open_by_symbol, prev) ==
    IF cfg.gap_min_pct <= 0 \/ prev[s] = None THEN TRUE
    ELSE IF prev[s] <= 0 THEN TRUE
    ELSE Abs(open_by_symbol - prev[s]) * 100 >= cfg.gap_min_pct * prev[s]

\* Filters that do not ask whether the ATR is ready.
PassesFiltersAtrUnchecked(s, rows, prev) ==
    /\ ~(price[s] <= 0 \/ atr[s].value * 100 < cfg.atr_price_floor * price[s])
    /\ GapPasses(s, OpenBySymbol(rows, s), prev)

\* not e.atr.is_ready / e.Price <= 0 / atr / price < floor / gap: the per-symbol
\* filters of the order-building loops.
PassesFilters(s, rows, prev) ==
    /\ atr[s].is_ready
    /\ ~(price[s] <= 0 \/ atr[s].value * 100 < cfg.atr_price_floor * price[s])
    /\ GapPasses(s, OpenBySymbol(rows, s), prev)

\* A long candidate whose entry sits on the range high, without the buffer.
LongOrderNoBuffer(s, rows) ==
    LET entry == HighBySymbol(rows, s)
        stop  == entry - Pct(atr[s].value, cfg.stop_loss_atr_distance)
    IN  [equity |-> s, entry_price |-> entry, stop_price |-> stop, dir |-> 1]

\* The order of a long candidate.
LongOrder(s, rows) ==
    LET entry == HighBySymbol(rows, s) + Pct(atr[s].value, cfg.entry_buffer_atr)
        stop  == entry - Pct(atr[s].value, cfg.stop_loss_atr_distance)
    IN  [equity |-> s, entry_price |-> entry, stop_price |-> stop, dir |-> 1]

\* The order of a short candidate.
ShortOrder(s, rows) ==
    LET entry == LowBySymbol(rows, s) - Pct(atr[s].value, cfg.entry_buffer_atr)
        stop  == entry + Pct(atr[s].value, cfg.stop_loss_atr_distance)
    IN  [equity |-> s, entry_price |-> entry, stop_price |-> stop, dir |-> -1]

\* close_by_symbol[close_by_symbol > open_by_symbol].index
UpSymbols(rows) ==
    {s \in FrameSymbols(rows) :
        /\ OpenBySymbol(rows, s) # None /\ CloseBySymbol(rows, s) # None
        /\ CloseBySymbol(rows, s) > OpenBySymbol(rows, s)}

\* close_by_symbol[close_by_symbol < open_by_symbol].index
DownSymbols(rows) ==
    {s \in FrameSymbols(rows) :
        /\ OpenBySymbol(rows, s) # None /\ CloseBySymbol(rows, s) # None
        /\ CloseBySymbol(rows, s) < OpenBySymbol(rows, s)}

RECURSIVE MapOrders(_, _, _)
MapOrders(syms, rows, long) ==
    IF syms = <<>> THEN <<>>
    ELSE <<IF long THEN LongOrder(Head(syms), rows) ELSE ShortOrder(Head(syms), rows)>>
         \o MapOrders(Tail(syms), rows, long)

\* The list `orders` of the scan: the longs, then (unless long-only) the shorts,
\* each over the symbols of the tail frame in column order.
BuildOrders(rows, prev) ==
    LET longs  == {s \in UpSymbols(rows) : PassesFilters(s, rows, prev)}
        shorts == IF cfg.long_only THEN {}
                  ELSE {s \in DownSymbols(rows) : PassesFilters(s, rows, prev)}
    IN  MapOrders(SortedSeq(longs), rows, TRUE)
        \o MapOrders(SortedSeq(shorts), rows, FALSE)

-----------------------------------------------------------------------------
(* The scan: sizing and submission *)

\* risk_per_pos / denom, truncated: the risk-based quantity (unsigned).
RiskQty(o) ==
    LET denom == Abs(o.entry_price - o.stop_price)
    IN  IF denom = 0 THEN portfolio.total_portfolio_value  \* denom 1e-6: above every cap
        ELSE (cfg.stop_loss_risk_size * portfolio.total_portfolio_value)
                 \div (100 * cfg.max_positions * denom)

\* abs(int(self.calculate_order_quantity(e.symbol, 1 / max_positions))): the
\* platform's quantity for a 1/max_positions share of the portfolio value.
LimitQty(s) ==
    IF price[s] <= 0 THEN 0
    ELSE (portfolio.total_portfolio_value \div cfg.max_positions) \div price[s]

\* The free margin as it stood before the order loop.
FreeMarginBeforeLoop(i) ==
    portfolio.margin_remaining

\* float(self.portfolio.margin_remaining) as read in pass i of the order loop:
\* the platform's figure, margin_drop lower at each later read.
FreeMargin(i) ==
    portfolio.margin_remaining - (i - 1) * portfolio.margin_drop

\* remaining_orders = total_orders - (i - 1)
RemainingOrders(i, total) == total - (i - 1)

\* per_order_margin = (free_margin * margin_buffer) / max(1, remaining_orders),
\* to the cent.
PerOrderMargin(free_margin, remaining_orders) ==
    (free_margin * cfg.margin_buffer) \div (100 * Max2(1, remaining_orders))

\* int(max(0, per_order_margin * lev / max(price, 1e-6))) for candidate i of total.
MaxQtyByMargin(o, i, total) ==
    Max2(0, (FreeMargin(i) * cfg.margin_buffer * cfg.leverage)
                \div (100 * Max2(1, RemainingOrders(i, total)) * Max2(o.entry_price, 1)))

\* An entry quantity that is not capped by the allocation.
EntryQtyNoAllocationCap(o, i, total) ==
    LET sign == IF o.dir > 0 THEN 1 ELSE -1
    IN  Min2(RiskQty(o), MaxQtyByMargin(o, i, total)) * sign

\* The signed entry quantity of candidate i after the three caps.
EntryQty(o, i, total) ==
    LET sign     == IF o.dir > 0 THEN 1 ELSE -1
        risk_qty == RiskQty(o) * sign
        qty1     == Min2(Abs(risk_qty), LimitQty(o.equity)) * (IF risk_qty > 0 THEN 1 ELSE -1)
    IN  Min2(Abs(qty1), MaxQtyByMargin(o, i, total)) * (IF qty1 > 0 THEN 1 ELSE -1)

\* A retry at the full quantity.
RetryQtyFull(qty) == qty

\* int(abs(qty) * self._retry_fraction) * sign
RetryQty(qty) == Pct(Abs(qty), cfg.retry_fraction) * (IF qty > 0 THEN 1 ELSE -1)

\* A new order of the platform's order table.
NewOrder(s, type, tag, qty, level) ==
    [symbol |-> s, type |-> type, tag |-> tag, quantity |-> qty, price |-> level,
     status |-> "Submitted"]

\* get_next_market_open(self.time, False): the first open after t; the session
\* opens at minute 0 of each date.
NextMarketOpen(t) == (DateOf(t) + 1) * DayTicks

\* One pass of the order loop for candidate i (equity mode): st carries sec,
\* selected, orders, and whether an uncaught exception ended the loop.
PlaceEquity(o, i, total, st) ==
    LET s   == o.equity
        e0  == ResetTickets(st.sec[s])
        qty == EntryQty(o, i, total)
        e1  == [e0 EXCEPT !.initial_stop = o.stop_price]
        smaller == RetryQty(qty)
        \* what this pass read, computed and passed to stop_market_order
        Sized(attempts, outcome) ==
            [symbol |-> s, index |-> i, total |-> total, dir |-> o.dir,
             entry_price |-> o.entry_price, stop_price |-> o.stop_price,
             free_margin |-> FreeMargin(i),
             per_order_margin |-> PerOrderMargin(FreeMargin(i), RemainingOrders(i, total)),
             risk_qty |-> RiskQty(o), limit_qty |-> LimitQty(s),
             max_qty_by_margin |-> MaxQtyByMargin(o, i, total),
             qty |-> qty, attempts |-> attempts, outcome |-> outcome]
    IN  IF qty = 0
        THEN [st EXCEPT !.sec[s] = e0, !.sizing = Append(@, Sized(<<>>, "skipped"))]
        ELSE IF submit_fails[s] = 0
        THEN [st EXCEPT !.orders = Append(@, NewOrder(s, "StopMarket", "Entry", qty, o.entry_price)),
                        !.sec[s] = [e1 EXCEPT !.entry_ticket = Len(st.orders) + 1],
                        !.sizing = Append(@, Sized(<<qty>>, "placed"))]
        ELSE IF smaller = 0
        THEN [st EXCEPT !.sec[s] = ResetTickets(e1),
                        !.sizing = Append(@, Sized(<<qty>>, "abandoned"))]
        ELSE IF submit_fails[s] = 1
        THEN [st EXCEPT !.orders = Append(@, NewOrder(s, "StopMarket", "Entry_Retry50", smaller, o.entry_price)),
                        !.sec[s] = [e1 EXCEPT !.entry_ticket = Len(st.orders) + 1],
                        !.sizing = Append(@, Sized(<<qty, smaller>>, "retried"))]
        ELSE [st EXCEPT !.sec[s] = e1, !.raised = TRUE,
                        !.sizing = Append(@, Sized(<<qty, smaller>>, "raised"))]

\* One pass of the order loop for candidate i (options mode): arm the pending
\* confirmation.
ArmPending(o, st) ==
    LET s == o.equity
    IN  [st EXCEPT !.sec[s] =
            [@ EXCEPT !.pending_dir = o.dir,
                      !.pending_entry = o.entry_price,
                      !.pending_stop = o.stop_price,
                      !.confirm_count = 0,
                      !.confirm_ready_time = NextMarketOpen(time) + cfg.confirm_delay_min]]

RECURSIVE PlaceOrders(_, _, _)
\* for i, o in enumerate(orders, start=1): ...
PlaceOrders(i, ords, st) ==
    IF i > Len(ords) \/ st.raised THEN st
    ELSE LET s   == ords[i].equity
             st1 == [st EXCEPT !.selected =
                        IF s \in SeqToSet(@) THEN @ ELSE Append(@, s)]
             st2 == IF cfg.use_options THEN ArmPending(ords[i], st1)
                    ELSE PlaceEquity(ords[i], i, Len(ords), st1)
         IN  PlaceOrders(i + 1, ords, st2)

\* Everything _scan_for_entries computes, from the state it reads.
ScanOutcome ==
    LET n        == cfg.opening_range_minutes
        symbols  == SortedSeq(universe)
        raw      == HistoryRows(minute_history, symbols, n + 1)
        tail     == FrameTail(raw, n)
        intail   == FrameSymbols(tail)
        rv       == [s \in Symbols |->
                        IF s \in intail
                        THEN RelativeVolume(VolumeSum(tail, s), volume_sma[s])
                        ELSE sec[s].relative_volume]
        sma      == [s \in Symbols |->
                        IF s \in intail
                        THEN SmaUpdate(volume_sma[s], VolumeSum(tail, s))
                        ELSE volume_sma[s]]
        passing  == FilterSeq(symbols, {s \in intail : RvolAbove(rv[s])})
        ranked   == TopByRvol(passing, rv)
        prev     == [s \in Symbols |->
                        IF s \in SeqToSet(ranked) THEN daily_close[s] ELSE None]
        ords     == IF symbols = <<>> \/ raw = <<>> \/ is_warming_up \/ passing = <<>>
                    THEN <<>>
                    ELSE BuildOrders(tail, prev)
        sec1     == [s \in Symbols |-> [sec[s] EXCEPT !.relative_volume = rv[s]]]
        st0      == [sec |-> sec1, selected |-> selected, orders |-> orders,
                     raised |-> FALSE, sizing |-> <<>>]
    IN  [ returned_early |-> symbols = <<>> \/ raw = <<>>,
          tail    |-> tail,
          rv      |-> rv,
          sma     |-> sma,
          ranked  |-> ranked,
          orders  |-> ords,
          final   |-> PlaceOrders(1, ords, st0) ]

\* The symbols for which the loop left an entry order or an armed confirmation.
PlacedBy(out) ==
    {s \in Symbols :
        \E i \in DOMAIN out.orders :
            /\ out.orders[i].equity = s
            /\ \/ out.final.sec[s].entry_ticket # None
               \/ (cfg.use_options /\ out.final.sec[s].pending_dir # 0)}

\* _scan_for_entries, the scheduled event after the opening range.
ScanForEntries ==
    /\ phase = "open"
    /\ LET out == ScanOutcome
       IN  /\ phase' = IF out.final.raised THEN "stopped" ELSE "scanned"
           /\ IF out.returned_early
              THEN UNCHANGED <<volume_sma, sec, selected, orders>>
              ELSE /\ volume_sma' = out.sma
                   /\ sec' = out.final.sec
                   /\ selected' = out.final.selected
                   /\ orders' = out.final.orders
           /\ scan' = [ ran |-> TRUE, date |-> DateOf(time),
                        tail |-> IF out.returned_early THEN <<>> ELSE out.tail,
                        ranked |-> IF out.returned_early THEN <<>> ELSE out.ranked,
                        orders |-> out.orders,
                        placed |-> PlacedBy(out),
                        sizing |-> out.final.sizing ]
    /\ lastEvent' = [name |-> "scan", symbol |-> None]
    /\ UNCHANGED <<cfg, option_chain, option_holdings, universe, is_warming_up, portfolio, atr, price,
                   minute_history, daily_close, submit_fails, holdings, time,
                   bar_seen>>

-----------------------------------------------------------------------------
(* Order events (equity mode) *)

\* ticket.UpdateStopPrice: an update of an order that is no longer open is refused.
UpdateStopPrice(ords, id, level) ==
    IF ords[id].status = "Submitted" THEN [ords EXCEPT ![id].price = level] ELSE ords

\* ticket.UpdateQuantity
UpdateQuantity(ords, id, qty) ==
    IF ords[id].status = "Submitted" THEN [ords EXCEPT ![id].quantity = qty] ELSE ords

\* ticket.Cancel
CancelOrder(ords, id) ==
    IF ords[id].status = "Submitted" THEN [ords EXCEPT ![id].status = "Canceled"] ELSE ords

\* Half of the entry size, rounded up.
HalfQtyRoundedUp(q) == (Abs(q) + 1) \div 2

\* half = abs_qty // 2
HalfQty(q) == Abs(q) \div 2

\* on_order_event, entry filled: record the entry, arm the stop for the full size,
\* place the take-profit for half the size when the size is at least 2.
EntryFilled(e, s, fill_price, ords) ==
    LET q         == ords[e.entry_ticket].quantity
        direction == IF q > 0 THEN 1 ELSE -1
        init      == IF e.initial_stop = None
                     THEN fill_price - direction * Pct(atr[s].value, cfg.stop_loss_atr_distance)
                     ELSE e.initial_stop
        oneR      == Abs(fill_price - init)
        ords1     == Append(ords, NewOrder(s, "StopMarket", "ATR Stop", -q, init))
        e1        == [e EXCEPT !.entry_price = fill_price, !.initial_stop = init,
                               !.oneR = oneR, !.moved_to_breakeven = FALSE,
                               !.entry_time = time, !.high_water = fill_price,
                               !.low_water = fill_price, !.current_stop = init,
                               !.stop_loss_ticket = Len(ords1)]
        half      == HalfQty(q)
        tp_qty    == IF q > 0 THEN -half ELSE half
        tp_price  == IF q > 0 THEN fill_price + oneR ELSE fill_price - oneR
    IN  IF half >= 1
        THEN [e |-> [e1 EXCEPT !.half_qty = half, !.tp_ticket = Len(ords1) + 1],
              orders |-> Append(ords1, NewOrder(s, "Limit", "TakeProfit_1R", tp_qty, tp_price))]
        ELSE [e |-> e1, orders |-> ords1]

\* A stop-fill handler that cleans the fields and leaves the take-profit working.
StopFilledKeepsTakeProfit(e, ords) == [e |-> ResetTickets(e), orders |-> ords]

\* on_order_event, stop filled: cancel the take-profit and clean.
StopFilled(e, ords) ==
    [e |-> ResetTickets(e),
     orders |-> IF e.tp_ticket # None /\ ords[e.tp_ticket].status \notin {"Canceled", "Filled"}
                THEN CancelOrder(ords, e.tp_ticket) ELSE ords]

\* A take-profit handler that locks breakeven and leaves the stop at full size.
TakeProfitFilledNoResize(e, ords, remaining) ==
    IF e.entry_price # None /\ e.stop_loss_ticket # None
    THEN [e |-> [e EXCEPT !.current_stop = e.entry_price,
                          !.moved_to_breakeven = TRUE,
                          !.last_stop_update_time = time],
          orders |-> UpdateStopPrice(ords, e.stop_loss_ticket, e.entry_price)]
    ELSE [e |-> e, orders |-> ords]

\* A take-profit handler that resizes the stop and leaves its level alone.
TakeProfitFilledKeepsLevel(e, ords, remaining) ==
    [e |-> e,
     orders |-> IF e.stop_loss_ticket # None /\ remaining # 0
                THEN UpdateQuantity(ords, e.stop_loss_ticket, -remaining) ELSE ords]

\* on_order_event, take-profit filled: resize the stop and lock breakeven;
\* remaining is the symbol's holdings after the fill.
TakeProfitFilled(e, ords, remaining) ==
    LET ords1 == IF e.stop_loss_ticket # None /\ remaining # 0
                 THEN UpdateQuantity(ords, e.stop_loss_ticket, -remaining) ELSE ords
    IN  IF e.entry_price # None /\ e.stop_loss_ticket # None
        THEN [e |-> [e EXCEPT !.current_stop = e.entry_price,
                              !.moved_to_breakeven = TRUE,
                              !.last_stop_update_time = time],
              orders |-> UpdateStopPrice(ords1, e.stop_loss_ticket, e.entry_price)]
        ELSE [e |-> e, orders |-> ords1]

\* Which branch of on_order_event a filled order takes.
FillKind(e, id) ==
    IF e.entry_ticket # None /\ id = e.entry_ticket THEN "entry_filled"
    ELSE IF e.stop_loss_ticket # None /\ id = e.stop_loss_ticket THEN "stop_filled"
    ELSE IF e.tp_ticket # None /\ id = e.tp_ticket THEN "tp_filled"
    ELSE "other_filled"

\* on_order_event for a FILLED event; ords and remaining are the order table and
\* the symbol's holdings once the platform has applied the fill.
OnOrderEvent(e, s, id, fill_price, ords, remaining) ==
    CASE FillKind(e, id) = "entry_filled" -> EntryFilled(e, s, fill_price, ords)
      [] FillKind(e, id) = "stop_filled"  -> StopFilled(e, ords)
      [] FillKind(e, id) = "tp_filled"    -> TakeProfitFilled(e, ords, remaining)
      [] OTHER                            -> [e |-> e, orders |-> ords]

\* The platform's trigger of a resting order at the current price: a stop order
\* fills at or beyond its stop level, a limit order at or better than its limit.
CanFill(o, p) ==
    /\ o.status = "Submitted"
    /\ IF o.type = "StopMarket"
       THEN (IF o.quantity > 0 THEN p >= o.price ELSE p <= o.price)
       ELSE (IF o.quantity > 0 THEN p <= o.price ELSE p >= o.price)

\* The platform applies the fill of order id at the current price and
\* on_order_event handles the FILLED event.
FillAndHandle(id) ==
    /\ LET s     == orders[id].symbol
           ords1 == [orders EXCEPT ![id].status = "Filled"]
           h1    == holdings[s] + orders[id].quantity
           r     == OnOrderEvent(sec[s], s, id, price[s], ords1, h1)
       IN  /\ sec' = [sec EXCEPT ![s] = r.e]
           /\ orders' = r.orders
           /\ holdings' = [holdings EXCEPT ![s] = h1]
           /\ lastEvent' = [name |-> FillKind(sec[s], id), symbol |-> s]
    /\ UNCHANGED <<cfg, option_chain, option_holdings, universe, is_warming_up, portfolio, atr, volume_sma, price,
                   minute_history, daily_close, submit_fails, selected, time, phase,
                   bar_seen, scan>>

\* A resting order fills at the current price and the fill event is handled.
OrderFilled(id) ==
    /\ phase \in {"scanned", "late"}
    /\ CanFill(orders[id], price[orders[id].symbol])
    /\ FillAndHandle(id)

\* A resting protective stop or take-profit is executed at the venue inside
\* the bar (the bar's range reaches its level, wherever the bar closes): from
\* here on the order can be neither cancelled nor changed, and its fill event
\* is on its way to on_order_event.
ExitOrderExecuted(id) ==
    /\ phase \in {"scanned", "late"}
    /\ orders[id].status = "Submitted"
    /\ orders[id].tag \in {"ATR Stop", "TakeProfit_1R"}
    /\ orders' = [orders EXCEPT ![id].status = "Executed"]
    /\ lastEvent' = [name |-> "executed", symbol |-> orders[id].symbol]
    /\ UNCHANGED <<cfg, option_chain, option_holdings, universe, is_warming_up, portfolio, atr,
                   volume_sma, price, minute_history, daily_close, submit_fails, sec,
                   selected, holdings, time, phase, bar_seen, scan>>

\* The fill event of an executed order arrives: the platform applies the fill
\* to the holdings and on_order_event handles it.
FillEventHandled(id) ==
    /\ orders[id].status = "Executed"
    /\ FillAndHandle(id)

-----------------------------------------------------------------------------
(* Bar updates (equity mode) *)

\* symbol_properties.minimum_price_variation
TickSize == 1

\* _should_move_stop(sec, new_price)
ShouldMoveStop(e, s, new_price) ==
    IF new_price = None THEN FALSE
    ELSE IF e.current_stop = None THEN TRUE
    ELSE IF e.last_stop_update_time = time THEN FALSE
    ELSE IF ~atr[s].is_ready THEN FALSE
    ELSE IF atr[s].value <= 0 THEN FALSE
    ELSE IF Abs(new_price - e.current_stop)
              < Max2(cfg.trail_min_ticks * TickSize,
                     Pct(atr[s].value, cfg.trail_update_threshold_atr))
    THEN FALSE
    ELSE TRUE

\* A trailing candidate one whole ATR behind the water mark, whatever the
\* trailing multiple.
TrailCandidateWholeAtr(e, s, direction) ==
    IF direction > 0
    THEN Max2(e.entry_price, e.high_water - atr[s].value)
    ELSE Min2(e.entry_price, e.low_water + atr[s].value)

\* max(entry, high_water - mult * atr) for a long, min(entry, low_water + mult * atr)
\* for a short.
TrailCandidate(e, s, direction) ==
    IF direction > 0
    THEN Max2(e.entry_price, e.high_water - Pct(atr[s].value, cfg.trail_ATR_mult))
    ELSE Min2(e.entry_price, e.low_water + Pct(atr[s].value, cfg.trail_ATR_mult))

\* Trailing that does not wait for breakeven.
TrailAllowedBeforeBreakeven(e, s) ==
    atr[s].is_ready

\* The guard of the trailing branch: after breakeven, with a ready ATR.
TrailAllowed(e, s) ==
    e.moved_to_breakeven /\ atr[s].is_ready

\* Whether the trailing candidate is more favorable than the current stop.
TrailImproves(e, direction, cand) ==
    \/ e.current_stop = None
    \/ (IF direction > 0 THEN cand > e.current_stop ELSE cand < e.current_stop)

\* A bar update that derives the risk unit again from the latest stop.
TrackWaterRederivesR(e, direction, p) ==
    [e EXCEPT !.high_water = IF direction > 0 THEN Max2(IF @ = None THEN p ELSE @, p) ELSE @,
              !.low_water  = IF direction < 0 THEN Min2(IF @ = None THEN p ELSE @, p) ELSE @,
              !.oneR = Abs(e.entry_price - e.current_stop)]

\* The water marks after a bar at price p.
TrackWater(e, direction, p) ==
    LET hw == IF e.high_water = None THEN p ELSE e.high_water
        lw == IF e.low_water = None THEN p ELSE e.low_water
    IN  [e EXCEPT !.high_water = IF direction > 0 THEN Max2(hw, p) ELSE hw,
                  !.low_water  = IF direction < 0 THEN Min2(lw, p) ELSE lw]

\* The body of on_data's loop for one selected equity position.
ManageEquity(e, s, ords) ==
    IF holdings[s] = 0 THEN [e |-> e, orders |-> ords]
    ELSE IF ~(e.entry_ticket # None /\ e.stop_loss_ticket # None
              /\ e.oneR # None /\ e.oneR # 0 /\ e.entry_price # None)
    THEN [e |-> e, orders |-> ords]
    ELSE LET p         == price[s]
             direction == IF holdings[s] > 0 THEN 1 ELSE -1
             e1        == TrackWater(e, direction, p)
             move      == direction * (p - e.entry_price)
             be        == /\ ~e1.moved_to_breakeven
                          /\ move * 100 >= cfg.breakeven_trigger_R * e1.oneR
                          /\ ShouldMoveStop(e1, s, e1.entry_price)
             e2        == IF be
                          THEN [e1 EXCEPT !.current_stop = e1.entry_price,
                                          !.moved_to_breakeven = TRUE,
                                          !.last_stop_update_time = time]
                          ELSE e1
             ords2     == IF be THEN UpdateStopPrice(ords, e.stop_loss_ticket, e1.entry_price)
                          ELSE ords
             cand      == TrailCandidate(e2, s, direction)
             trail     == /\ TrailAllowed(e2, s)
                          /\ TrailImproves(e2, direction, cand)
                          /\ ShouldMoveStop(e2, s, cand)
         IN  IF trail
             THEN [e |-> [e2 EXCEPT !.current_stop = cand, !.last_stop_update_time = time],
                   orders |-> UpdateStopPrice(ords2, e.stop_loss_ticket, cand)]
             ELSE [e |-> e2, orders |-> ords2]

-----------------------------------------------------------------------------
(* Bar updates (options mode) *)

ContractIds == {1, 2, 3, 4}

\* best = None in _pick_atm_contract, otm = None in on_data
NoContract ==
    [id |-> None, right |-> "None", strike |-> 0, expiry |-> None, bid |-> 0, ask |-> 0,
     open_interest |-> None, last_price |-> 0]

\* has_pos: an invested long or short leg; oh is the option holdings.
HasPos(e, oh) ==
    \/ (e.option_long # None /\ oh[e.option_long] # 0)
    \/ (e.option_short # None /\ oh[e.option_short] # 0)

\* A liquidity filter that lets every quote through.
LiquidityOkAnyQuote(c) == TRUE

\* _liquidity_ok(c)
LiquidityOk(c) ==
    IF c.bid <= 0 \/ c.ask <= 0 THEN FALSE
    ELSE IF c.open_interest # None /\ c.open_interest < cfg.option_min_oi THEN FALSE
    ELSE IF (c.ask - c.bid) > cfg.option_max_spread_ticks * TickSize THEN FALSE
    ELSE TRUE

\* dte = (expiry.date() - self.time.date()).days
Dte(c) == c.expiry - DateOf(time)

\* A key that compares the distance to the spot only.
KeyLessByStrikeOnly(c, best, spot) ==
    \/ best.id = None
    \/ Abs(c.strike - spot) < Abs(best.strike - spot)

\* key < best_key on (DTE, |strike - spot|)
KeyLess(c, best, spot) ==
    \/ best.id = None
    \/ Dte(c) < Dte(best)
    \/ (Dte(c) = Dte(best) /\ Abs(c.strike - spot) < Abs(best.strike - spot))

RECURSIVE PickFrom(_, _, _, _)
\* The loop of _pick_atm_contract over the rest of the chain.
PickFrom(chain, right, spot, best) ==
    IF chain = <<>> THEN best
    ELSE LET c    == Head(chain)
             take == /\ c.right = right
                     /\ LiquidityOk(c)
                     /\ c.expiry # None
                     /\ Dte(c) >= 0 /\ Dte(c) <= cfg.option_dte_max
                     /\ KeyLess(c, best, spot)
         IN  PickFrom(Tail(chain), right, spot, IF take THEN c ELSE best)

\* _pick_atm_contract(chain, right, spot)
PickAtmContract(chain, right, spot) == PickFrom(chain, right, spot, NoContract)

\* _mid(c), doubled to stay in whole cents.
Mid2(c) == IF c.bid > 0 /\ c.ask > 0 THEN c.bid + c.ask ELSE 2 * c.last_price

\* _option_qty_for_risk(mid, risk_per_pos, side_sign) on the doubled mid.
OptionQtyForRisk(mid2, side_sign) ==
    IF mid2 <= 0 THEN 0
    ELSE Max2(1, (2 * cfg.stop_loss_risk_size * portfolio.total_portfolio_value)
                    \div (100 * cfg.max_positions * mid2 * 100))
            * (IF side_sign > 0 THEN 1 ELSE -1)

\* The OTM wing of a debit spread: the liquid contract one strike away from
\* best in the direction of profit, or NoContract.
OtmWing(chain, right, best, dir) ==
    LET liquid  == {i \in DOMAIN chain : chain[i].right = right /\ LiquidityOk(chain[i])}
        strikes == {chain[i].strike : i \in {j \in liquid :
                        IF dir > 0 THEN chain[j].strike > best.strike
                        ELSE chain[j].strike < best.strike}}
    IN  IF strikes = {} THEN NoContract
        ELSE LET target == IF dir > 0 THEN SetMin(strikes) ELSE SetMax(strikes)
                 first  == SetMin({i \in liquid : chain[i].strike = target})
             IN  chain[first]

\* A wing that is taken whatever its expiry.
SameExpiryUnchecked(otm, best) == TRUE

\* The wing expires with the at-the-money leg.
SameExpiry(otm, best) == otm.expiry = best.expiry

\* A confirmation that does not wait for the ready time.
ConfirmReadyAtOnce(e) == TRUE

\* self.time >= (e.confirm_ready_time or self.time)
ConfirmReady(e) ==
    time >= (IF e.confirm_ready_time = None THEN time ELSE e.confirm_ready_time)

\* A counter that a non-confirming bar leaves as it is.
ConfirmCountNoReset(e, passed) ==
    IF passed THEN e.confirm_count + 1 ELSE e.confirm_count

\* e.confirm_count after a bar: one more if it passed, zero if not.
ConfirmCount(e, passed) ==
    IF passed THEN e.confirm_count + 1 ELSE 0

\* An entry that leaves the confirmation armed.
PendingKept(e) == e

\* clear pending, the last statements of an entry
ClearPending(e) ==
    [e EXCEPT !.pending_dir = 0, !.pending_entry = None, !.pending_stop = None,
              !.confirm_count = 0]

\* Step 1 of the options loop body: entry confirmation and entry.
ConfirmEntry(e, s, oh) ==
    IF ~(e.pending_dir # 0 /\ e.pending_entry # None) THEN [e |-> e, oh |-> oh]
    ELSE IF ~ConfirmReady(e)
    THEN [e |-> e, oh |-> oh]
    ELSE LET px     == price[s]
             passed == IF e.pending_dir > 0 THEN px >= e.pending_entry
                       ELSE px <= e.pending_entry
             e1     == [e EXCEPT !.confirm_count = ConfirmCount(e, passed)]
             chain  == option_chain[s]
             right  == IF e.pending_dir > 0 THEN "Call" ELSE "Put"
             best   == PickAtmContract(chain, right, price[s])
             qty    == OptionQtyForRisk(Mid2(best), e.pending_dir)
             otm    == IF cfg.option_use_debit_spread
                       THEN OtmWing(chain, right, best, e.pending_dir) ELSE NoContract
             spread == otm.id # None /\ SameExpiry(otm, best)
             oh1    == [oh EXCEPT ![best.id] = @ + qty]
             oh2    == IF spread THEN [oh1 EXCEPT ![otm.id] = @ - qty] ELSE oh1
         IN  IF e1.confirm_count < Max2(1, cfg.confirm_bars) THEN [e |-> e1, oh |-> oh]
             ELSE IF chain = <<>> \/ best.id = None \/ Mid2(best) <= 0 \/ qty = 0
             THEN [e |-> e1, oh |-> oh]
             ELSE [e |-> ClearPending([e1 EXCEPT !.option_long = best.id,
                                    !.option_short = IF spread THEN otm.id ELSE None,
                                    !.option_qty = qty,
                                    !.entry_price = price[s],
                                    !.initial_stop = e.pending_stop,
                                    !.oneR = Abs(e.pending_entry - e.pending_stop),
                                    !.moved_to_breakeven = FALSE,
                                    !.entry_time = time,
                                    !.high_water = price[s],
                                    !.low_water = price[s],
                                    !.current_stop = e.pending_stop,
                                    !.last_stop_update_time = None]),
                   oh |-> oh2]

\* _close_option_position(sec)
CloseOptionPosition(e, oh) ==
    [e  |-> [e EXCEPT !.option_long = None, !.option_short = None, !.option_qty = 0],
     oh |-> [c \in DOMAIN oh |-> IF c = e.option_long \/ c = e.option_short THEN 0 ELSE oh[c]]]

\* A stop check that fires only once the price is strictly beyond the stop.
StopHitBeyondOnly(e, direction, p) ==
    /\ e.current_stop # None
    /\ (IF direction > 0 THEN p < e.current_stop ELSE p > e.current_stop)

\* The stop check on the underlying: price <= current_stop for a long,
\* price >= current_stop for a short.
StopHit(e, direction, p) ==
    /\ e.current_stop # None
    /\ (IF direction > 0 THEN p <= e.current_stop ELSE p >= e.current_stop)

\* Step 2 of the options loop body: exit management on the underlying.
ManageOption(e, s, oh) ==
    LET p         == price[s]
        direction == IF e.option_qty > 0 THEN 1 ELSE -1
        e1        == TrackWater(e, direction, p)
        move      == direction * (p - e1.entry_price)
        be        == /\ ~e1.moved_to_breakeven
                     /\ e1.oneR # None /\ e1.oneR # 0
                     /\ move * 100 >= cfg.breakeven_trigger_R * e1.oneR
        e2        == IF be
                     THEN [e1 EXCEPT !.current_stop = e1.entry_price,
                                     !.moved_to_breakeven = TRUE,
                                     !.last_stop_update_time = time]
                     ELSE e1
        cand      == TrailCandidate(e2, s, direction)
        trail     == /\ e2.moved_to_breakeven /\ atr[s].is_ready
                     /\ TrailImproves(e2, direction, cand)
                     /\ ShouldMoveStop(e2, s, cand)
        e3        == IF trail
                     THEN [e2 EXCEPT !.current_stop = cand, !.last_stop_update_time = time]
                     ELSE e2
        hit       == StopHit(e3, direction, p)
    IN  IF hit THEN CloseOptionPosition(e3, oh) ELSE [e |-> e3, oh |-> oh]

\* The body of on_data's loop for one selected symbol in options mode.
OptionsOne(e, s, oh) ==
    LET r == ConfirmEntry(e, s, oh)
    IN  IF HasPos(e, oh) THEN ManageOption(r.e, s, r.oh) ELSE r

RECURSIVE ManageAll(_, _)
\* for e in list(self._selected): ... over the remaining symbols of the list;
\* st carries sec, orders and the option holdings.
ManageAll(syms, st) ==
    IF syms = <<>> THEN st
    ELSE LET s == Head(syms)
         IN  IF cfg.use_options
             THEN LET r == OptionsOne(st.sec[s], s, st.oh)
                  IN  ManageAll(Tail(syms), [st EXCEPT !.sec[s] = r.e, !.oh = r.oh])
             ELSE LET r == ManageEquity(st.sec[s], s, st.orders)
                  IN  ManageAll(Tail(syms), [st EXCEPT !.sec[s] = r.e, !.orders = r.orders])

\* on_data for the current bar.
OnData ==
    /\ ~bar_seen
    /\ bar_seen' = TRUE
    /\ LET st == ManageAll(selected, [sec |-> sec, orders |-> orders, oh |-> option_holdings])
       IN  sec' = st.sec /\ orders' = st.orders /\ option_holdings' = st.oh
    /\ lastEvent' = [name |-> "on_data", symbol |-> None]
    /\ UNCHANGED <<cfg, option_chain, universe, is_warming_up, portfolio, atr,
                   volume_sma, price, minute_history, daily_close, submit_fails,
                   selected, holdings, time, phase, scan>>

\* The prices a bar can bring.
Prices == {9600, 9700, 9780, 9880, 10000, 10220, 10320, 10400, 10600}

\* The next minute bar arrives: the clock advances and the tracked symbols get
\* their new prices.
NewBar ==
    /\ phase \in {"scanned", "late"}
    /\ bar_seen
    /\ MinuteOf(time) < MaxMinute
    /\ time' = time + 1
    /\ \E np \in [SeqToSet(selected) -> Prices] :
          price' = [s \in Symbols |-> IF s \in DOMAIN np THEN np[s] ELSE price[s]]
    /\ bar_seen' = FALSE
    /\ lastEvent' = [name |-> "new_bar", symbol |-> None]
    /\ UNCHANGED <<cfg, option_chain, option_holdings, universe, is_warming_up, portfolio, atr, volume_sma,
                   minute_history, daily_close, submit_fails, sec, selected, orders,
                   holdings, phase, scan>>

-----------------------------------------------------------------------------
(* Session boundary events *)

\* A liquidation that closes the holdings and leaves the open orders resting.
LiquidateKeepsOrders(s, st) ==
    IF st.holdings[s] = 0 THEN st
    ELSE [st EXCEPT
            !.orders = Append(@, [NewOrder(s, "Market", "Liquidated", -st.holdings[s], price[s])
                                     EXCEPT !.status = "Filled"]),
            !.holdings[s] = 0]

\* self.liquidate(symbol): cancel the symbol's open orders and close its
\* holdings with a market order that fills at once; st carries orders, holdings.
Liquidate(s, st) ==
    LET canceled == [i \in DOMAIN st.orders |->
                        IF st.orders[i].symbol = s /\ st.orders[i].status = "Submitted"
                        THEN [st.orders[i] EXCEPT !.status = "Canceled"]
                        ELSE st.orders[i]]
    IN  IF st.holdings[s] = 0 THEN [st EXCEPT !.orders = canceled]
        ELSE [st EXCEPT
                !.orders = Append(canceled,
                              [NewOrder(s, "Market", "Liquidated", -st.holdings[s], price[s])
                                  EXCEPT !.status = "Filled"]),
                !.holdings[s] = 0]

\* A time stop that spares the positions showing a profit.
TimeStopFlattensLosersOnly(e, s, st) ==
    /\ (IF cfg.use_options THEN HasPos(e, st.oh) ELSE st.holdings[s] # 0)
    /\ ~(e.entry_time = None \/ DateOf(e.entry_time) # DateOf(time))
    /\ ~e.moved_to_breakeven
    /\ e.entry_price # None
    /\ (IF cfg.use_options THEN e.option_qty ELSE st.holdings[s]) * (price[s] - e.entry_price) < 0

\* A time stop that does not look at the breakeven flag.
TimeStopFlattensAtBreakevenToo(e, s, st) ==
    /\ (IF cfg.use_options THEN HasPos(e, st.oh) ELSE st.holdings[s] # 0)
    /\ ~(e.entry_time = None \/ DateOf(e.entry_time) # DateOf(time))

\* The three tests of the loop body of _time_stop_exit: invested, entered
\* today, not at breakeven.
TimeStopFlattens(e, s, st) ==
    /\ (IF cfg.use_options THEN HasPos(e, st.oh) ELSE st.holdings[s] # 0)
    /\ ~(e.entry_time = None \/ DateOf(e.entry_time) # DateOf(time))
    /\ ~e.moved_to_breakeven

RECURSIVE TimeStopAll(_, _)
\* The loop of _time_stop_exit; st carries sec, orders, holdings and the
\* option holdings.
TimeStopAll(syms, st) ==
    IF syms = <<>> THEN st
    ELSE LET s == Head(syms)
             e == st.sec[s]
             flatten == TimeStopFlattens(e, s, st)
             closed  == CloseOptionPosition(e, st.oh)
         IN  TimeStopAll(Tail(syms),
                 IF ~flatten THEN st
                 ELSE IF cfg.use_options
                 THEN [st EXCEPT !.sec[s] = closed.e, !.oh = closed.oh]
                 ELSE Liquidate(s, st))

\* _time_stop_exit, the scheduled intraday cutoff.
TimeStopExit ==
    /\ phase = "scanned"
    /\ phase' = "late"
    /\ LET st == TimeStopAll(selected, [sec |-> sec, orders |-> orders,
                                        holdings |-> holdings, oh |-> option_holdings])
       IN  /\ sec' = st.sec /\ orders' = st.orders
           /\ holdings' = st.holdings /\ option_holdings' = st.oh
    /\ lastEvent' = [name |-> "time_stop", symbol |-> None]
    /\ UNCHANGED <<cfg, option_chain, universe, is_warming_up, portfolio, atr,
                   volume_sma, price, minute_history, daily_close, submit_fails,
                   selected, time, bar_seen, scan>>

RECURSIVE LiquidateAll(_, _)
\* self.liquidate(): every security, in turn.
LiquidateAll(syms, st) ==
    IF syms = <<>> THEN st ELSE LiquidateAll(Tail(syms), Liquidate(Head(syms), st))

\* The option legs of the selected symbols, closed by market orders at the end
\* of the day.
CloseLegs(oh) ==
    [c \in DOMAIN oh |->
        IF \E i \in DOMAIN selected :
              c = sec[selected[i]].option_long \/ c = sec[selected[i]].option_short
        THEN 0 ELSE oh[c]]

\* _exit, the scheduled end-of-day event.
Exit ==
    /\ phase = "late"
    /\ phase' = "closed"
    /\ IF cfg.use_options
       THEN /\ option_holdings' = CloseLegs(option_holdings)
            /\ UNCHANGED <<orders, holdings>>
       ELSE /\ LET st == LiquidateAll(SortedSeq(Symbols),
                                      [orders |-> orders, holdings |-> holdings])
               IN  orders' = st.orders /\ holdings' = st.holdings
            /\ UNCHANGED option_holdings
    /\ sec' = [s \in Symbols |-> IF s \in SeqToSet(selected) THEN ResetTickets(sec[s]) ELSE sec[s]]
    /\ selected' = <<>>
    /\ lastEvent' = [name |-> "exit", symbol |-> None]
    /\ UNCHANGED <<cfg, option_chain, universe, is_warming_up, portfolio, atr,
                   volume_sma, price, minute_history, daily_close, submit_fails,
                   time, bar_seen, scan>>

-----------------------------------------------------------------------------
(* Initial states *)

\* Minute bars of the opening range.
UpBar == [open |-> 10000, high |-> 10200, low |-> 9950, close |-> 10150, volume |-> 100]

DownBar == [open |-> 10150, high |-> 10180, low |-> 9900, close |-> 9950, volume |-> 300]

\* The bar sequences of length at most n over a set of bars.
BarSeqs(B, lens) == UNION {[1..k -> B] : k \in lens}

NoScan == [ran |-> FALSE, date |-> None, tail |-> <<>>, ranked |-> <<>>,
           orders |-> <<>>, placed |-> {}, sizing |-> <<>>]

AtrReady(v) == [is_ready |-> TRUE, value |-> v]

AtrNotReady == [is_ready |-> FALSE, value |-> 0]

\* A security's price at the scan time: the close of its latest minute bar.
LastClose(bars) == IF bars = <<>> THEN 10150 ELSE bars[Len(bars)].close

\* The state after initialize() and on_securities_changed(), at the scan time
\* of the first session, for the given sets of parameters and market inputs.
InitWith(Configs, Universes, Histories, Atrs, Smas, Closes, Fails, Accounts, Chains) ==
    /\ cfg \in Configs
    /\ universe \in Universes
    /\ is_warming_up \in BOOLEAN
    /\ portfolio \in Accounts
    /\ atr \in Atrs
    /\ volume_sma \in Smas
    /\ minute_history \in Histories
    /\ price = [s \in Symbols |-> LastClose(minute_history[s])]
    /\ daily_close \in (IF cfg.gap_min_pct > 0 THEN Closes ELSE {[s \in Symbols |-> None]})
    /\ submit_fails \in Fails
    /\ sec = [s \in Symbols |-> NewSecurity]
    /\ selected = <<>>
    /\ orders = <<>>
    /\ holdings = [s \in Symbols |-> 0]
    /\ option_chain \in (IF cfg.use_options THEN Chains ELSE {[s \in Symbols |-> <<>>]})
    /\ option_holdings = [c \in ContractIds |-> 0]
    /\ time = DayTicks + cfg.opening_range_minutes
    /\ phase = "open"
    /\ bar_seen = TRUE
    /\ lastEvent = [name |-> "init", symbol |-> None]
    /\ scan = NoScan

ScanConfigs ==
    { DefaultConfig,
      [DefaultConfig EXCEPT !.max_positions = 1, !.long_only = FALSE],
      [DefaultConfig EXCEPT !.max_positions = 2, !.gap_min_pct = 1],
      [DefaultConfig EXCEPT !.max_positions = 1, !.use_options = TRUE] }

ScanAtrs ==
    { [s \in Symbols |-> AtrReady(200)],
      [s \in Symbols |-> IF s = 1 THEN AtrNotReady ELSE AtrReady(200)],
      [s \in Symbols |-> IF s = 1 THEN AtrReady(200) ELSE AtrReady(100)] }

ScanSmas ==
    { [s \in Symbols |-> <<50>>],
      [s \in Symbols |-> IF s = 1 THEN <<50>> ELSE <<>>],
      [s \in Symbols |-> IF s = 1 THEN <<400>> ELSE <<50>>] }

ScanCloses ==
    { [s \in Symbols |-> None],
      [s \in Symbols |-> 10000],
      [s \in Symbols |-> IF s = 1 THEN 9000 ELSE 10000] }

ScanAccounts ==
    { [total_portfolio_value |-> 320000, margin_remaining |-> 320000, margin_drop |-> 0],
      [total_portfolio_value |-> 100000, margin_remaining |-> 2000, margin_drop |-> 0] }

InitScan ==
    InitWith(ScanConfigs, {Symbols, {2}, {}},
             [Symbols -> BarSeqs({UpBar, DownBar}, {0, 1, 3})],
             ScanAtrs, ScanSmas, ScanCloses,
             {[s \in Symbols |-> 0], [s \in Symbols |-> 1], [s \in Symbols |-> 2]},
             ScanAccounts, {[s \in Symbols |-> <<>>]})

NextScan == ScanForEntries

SpecScan == InitScan /\ [][NextScan]_vars

\* Scans whose candidates reach the order loop together, under accounts where
\* each of the three quantity caps binds and submissions that fail.
SizeConfigs ==
    { DefaultConfig,
      [DefaultConfig EXCEPT !.long_only = FALSE],
      [DefaultConfig EXCEPT !.stop_loss_atr_distance = 100, !.long_only = FALSE] }

SizeAccounts ==
    { [total_portfolio_value |-> 320000, margin_remaining |-> 320000, margin_drop |-> 0],
      [total_portfolio_value |-> 100000, margin_remaining |-> 2000, margin_drop |-> 0],
      [total_portfolio_value |-> 320000, margin_remaining |-> 12000, margin_drop |-> 8000],
      [total_portfolio_value |-> 320000, margin_remaining |-> 12000, margin_drop |-> 11000] }

SizeFails ==
    { [s \in Symbols |-> 0], [s \in Symbols |-> 1], [s \in Symbols |-> 2],
      [s \in Symbols |-> IF s = 1 THEN 2 ELSE 0] }

InitSize ==
    InitWith(SizeConfigs, {Symbols},
             [Symbols -> BarSeqs({UpBar, DownBar}, {1, 3})],
             {[s \in Symbols |-> AtrReady(200)]}, {[s \in Symbols |-> <<50>>]},
             {[s \in Symbols |-> None]}, SizeFails, SizeAccounts,
             {[s \in Symbols |-> <<>>]})

SpecSize == InitSize /\ [][NextScan]_vars

\* Scans of a batch: opening ranges that are empty, partial or full, an ATR
\* that is still warming up (with or without a value), baselines that rank the
\* two symbols either way, and an account whose free margin is the binding cap.
BatchConfigs ==
    { DefaultConfig,
      [DefaultConfig EXCEPT !.long_only = FALSE],
      [DefaultConfig EXCEPT !.use_options = TRUE, !.long_only = FALSE] }

AtrWarming(v) == [is_ready |-> FALSE, value |-> v]

BatchAtrs ==
    { [s \in Symbols |-> AtrReady(200)],
      [s \in Symbols |-> IF s = 1 THEN AtrNotReady ELSE AtrReady(200)],
      [s \in Symbols |-> IF s = 1 THEN AtrWarming(200) ELSE AtrReady(200)] }

BatchSmas ==
    { [s \in Symbols |-> <<50>>],
      [s \in Symbols |-> IF s = 1 THEN <<25>> ELSE <<50>>],
      [s \in Symbols |-> IF s = 1 THEN <<50>> ELSE <<25>>] }

BatchAccounts ==
    { [total_portfolio_value |-> 320000, margin_remaining |-> 320000, margin_drop |-> 0],
      [total_portfolio_value |-> 320000, margin_remaining |-> 12000, margin_drop |-> 0] }

InitBatch ==
    InitWith(BatchConfigs, {Symbols},
             [Symbols -> BarSeqs({UpBar, DownBar}, {0, 1, 3})],
             BatchAtrs, BatchSmas, {[s \in Symbols |-> None]},
             {[s \in Symbols |-> 0]}, BatchAccounts, {[s \in Symbols |-> <<>>]})

SpecBatch == InitBatch /\ [][NextScan]_vars

-----------------------------------------------------------------------------
(* The trading sessions *)

LifeConfigs ==
    { [DefaultConfig EXCEPT !.rvol_threshold = 90],
      [DefaultConfig EXCEPT !.stop_loss_atr_distance = 100, !.breakeven_trigger_R = 50,
                            !.trail_ATR_mult = 25, !.long_only = FALSE],
      [DefaultConfig EXCEPT !.stop_loss_atr_distance = 20],
      [DefaultConfig EXCEPT !.use_options = TRUE, !.long_only = FALSE] }

\* Full opening ranges: every symbol has a bar in each minute of the window.
LifeHistories ==
    { [s \in Symbols |-> <<UpBar, UpBar, UpBar>>],
      [s \in Symbols |-> <<DownBar, DownBar, DownBar>>] }

\* Option chains: for each symbol a call and its next strike up, a put and its
\* next strike down, expiring on the second session; or no chain at all.
Contract(id, right, strike) ==
    [id |-> id, right |-> right, strike |-> strike, expiry |-> 2, bid |-> 100, ask |-> 104,
     open_interest |-> 500, last_price |-> 102]

LifeChains ==
    { [s \in Symbols |-> <<Contract(1, "Call", 10200), Contract(2, "Call", 10300),
                            Contract(3, "Put", 9900), Contract(4, "Put", 9800)>>],
      [s \in Symbols |-> <<>>] }

LifeAccounts ==
    { [total_portfolio_value |-> 320000, margin_remaining |-> 320000, margin_drop |-> 0],
      [total_portfolio_value |-> 100000, margin_remaining |-> 320000, margin_drop |-> 0] }

Init ==
    InitWith(LifeConfigs, {Symbols}, LifeHistories,
             {[s \in Symbols |-> AtrReady(200)]},
             {[s \in Symbols |-> <<50>>]},
             {[s \in Symbols |-> None]},
             {[s \in Symbols |-> 0], [s \in Symbols |-> 1], [s \in Symbols |-> 2]},
             LifeAccounts, LifeChains)

\* The next session begins: the clock jumps to its scan time, the warm-up is
\* over and the opening range has its new bars.  The closed orders of the
\* session before, to which no ticket refers any more, leave the order table.
NewDay ==
    /\ phase = "closed"
    /\ DateOf(time) < MaxDays
    /\ time' = (DateOf(time) + 1) * DayTicks + cfg.opening_range_minutes
    /\ phase' = "open"
    /\ is_warming_up' = FALSE
    /\ minute_history' \in LifeHistories
    /\ price' = [s \in Symbols |-> LastClose(minute_history'[s])]
    /\ orders' = IF \A i \in DOMAIN orders : orders[i].status # "Submitted" THEN <<>> ELSE orders
    /\ bar_seen' = TRUE
    /\ lastEvent' = [name |-> "new_day", symbol |-> None]
    /\ UNCHANGED <<cfg, option_chain, option_holdings, universe, portfolio, atr, volume_sma, daily_close,
                   submit_fails, sec, selected, holdings, scan>>

Next ==
    \/ ScanForEntries
    \/ \E id \in DOMAIN orders : OrderFilled(id)
    \/ NewBar
    \/ OnData
    \/ TimeStopExit
    \/ Exit
    \/ NewDay

Spec == Init /\ [][Next]_vars

-----------------------------------------------------------------------------
(* Equity sessions with fill events in flight *)

FillConfigs == {c \in LifeConfigs : ~c.use_options}

InitFills ==
    InitWith(FillConfigs, {Symbols}, LifeHistories,
             {[s \in Symbols |-> AtrReady(200)]},
             {[s \in Symbols |-> <<50>>]},
             {[s \in Symbols |-> None]},
             {[s \in Symbols |-> 0], [s \in Symbols |-> 1]},
             LifeAccounts, LifeChains)

\* No fill event is on its way.
NoFillInFlight == \A id \in DOMAIN orders : orders[id].status # "Executed"

\* The sessions of Next, in which every fill is handled as it happens, and
\* besides them exit orders that execute while the fill event of the other
\* exit order of the position is still on its way; every event in flight is
\* handled before the next bar or scheduled event.
NextFills ==
    \/ NoFillInFlight /\ Next
    \/ \E id \in DOMAIN orders : ExitOrderExecuted(id)
    \/ \E id \in DOMAIN orders : FillEventHandled(id)

SpecFills == InitFills /\ [][NextFills]_vars

-----------------------------------------------------------------------------
(* Options sessions with an armed confirmation *)

ArmedConfigs ==
    { [DefaultConfig EXCEPT !.use_options = TRUE, !.long_only = FALSE],
      [DefaultConfig EXCEPT !.use_options = TRUE, !.long_only = FALSE,
                            !.option_use_debit_spread = TRUE, !.confirm_bars = 2],
      [DefaultConfig EXCEPT !.use_options = TRUE, !.long_only = FALSE,
                            !.option_use_debit_spread = TRUE, !.confirm_delay_min = 4],
      [DefaultConfig EXCEPT !.use_options = TRUE, !.long_only = FALSE,
                            !.confirm_bars = 2, !.confirm_delay_min = 4] }

\* A quoted contract of the chain.
Quoted(id, right, strike, expiry, bid, ask, oi) ==
    [id |-> id, right |-> right, strike |-> strike, expiry |-> expiry, bid |-> bid,
     ask |-> ask, open_interest |-> oi, last_price |-> bid]

\* Chains within the subscription filter (expiry 0 to option_dte_max days
\* away): one expiry; the at-the-money strikes expiring today and the wings
\* tomorrow; a wing strike listed for both expiries, in either order; quotes
\* that fail the liquidity filter, beside one without open interest data;
\* nothing liquid; no chain.
ArmedChains ==
    { <<Contract(1, "Call", 10200), Contract(2, "Call", 10300),
        Contract(3, "Put", 9900), Contract(4, "Put", 9800)>>,
      <<Quoted(1, "Call", 10300, 2, 100, 104, 500), Quoted(2, "Call", 10200, 1, 100, 104, 500),
        Quoted(3, "Put", 9800, 2, 100, 104, 500), Quoted(4, "Put", 9900, 1, 100, 104, 500)>>,
      <<Quoted(1, "Call", 10200, 1, 100, 104, 500), Quoted(2, "Call", 10300, 2, 100, 104, 500),
        Quoted(3, "Call", 10300, 1, 100, 104, 500), Quoted(4, "Put", 9900, 1, 100, 104, 500)>>,
      <<Quoted(3, "Call", 10300, 1, 100, 104, 500), Quoted(2, "Call", 10300, 2, 100, 104, 500),
        Quoted(1, "Call", 10200, 2, 100, 104, 500), Quoted(4, "Put", 9900, 1, 100, 104, 500)>>,
      <<Quoted(1, "Call", 10200, 1, 0, 104, 500), Quoted(2, "Call", 10300, 1, 100, 120, 500),
        Quoted(3, "Call", 10400, 1, 100, 104, None), Quoted(4, "Put", 9900, 1, 100, 104, 100)>>,
      <<Quoted(1, "Call", 10200, 1, 0, 104, 500), Quoted(4, "Put", 9900, 1, 100, 104, 100)>>,
      <<>> }

\* The fields an armed confirmation of direction dir holds for a symbol whose
\* opening range is that of UpBar or DownBar.
ArmedSecurity(dir, ready) ==
    LET level == IF dir > 0 THEN UpBar.high + Pct(200, cfg.entry_buffer_atr)
                 ELSE DownBar.low - Pct(200, cfg.entry_buffer_atr)
    IN  [NewSecurity EXCEPT
            !.pending_dir = dir,
            !.pending_entry = level,
            !.pending_stop = level - dir * Pct(200, cfg.stop_loss_atr_distance),
            !.confirm_count = 0,
            !.confirm_ready_time = ready]

\* Symbol 2 is tracked with an armed confirmation whose ready time is the
\* open of the running session plus the delay.
InitArmed ==
    /\ cfg \in ArmedConfigs
    /\ universe = Symbols
    /\ is_warming_up = FALSE
    /\ portfolio = [total_portfolio_value |-> 320000, margin_remaining |-> 320000,
                    margin_drop |-> 0]
    /\ atr = [s \in Symbols |-> AtrReady(200)]
    /\ volume_sma = [s \in Symbols |-> <<50>>]
    /\ minute_history \in LifeHistories
    /\ price = [s \in Symbols |-> LastClose(minute_history[s])]
    /\ daily_close = [s \in Symbols |-> None]
    /\ submit_fails = [s \in Symbols |-> 0]
    /\ time = DayTicks + cfg.opening_range_minutes
    /\ sec = [s \in Symbols |->
                IF s = 2
                THEN ArmedSecurity(IF minute_history[s][1] = UpBar THEN 1 ELSE -1,
                                   DateOf(time) * DayTicks + cfg.confirm_delay_min)
                ELSE NewSecurity]
    /\ selected = <<2>>
    /\ orders = <<>>
    /\ holdings = [s \in Symbols |-> 0]
    /\ \E chain \in ArmedChains : option_chain = [s \in Symbols |-> chain]
    /\ option_holdings = [c \in ContractIds |-> 0]
    /\ phase = "scanned"
    /\ bar_seen = TRUE
    /\ lastEvent = [name |-> "init", symbol |-> None]
    /\ scan = NoScan

NextArmed == NewBar \/ OnData \/ TimeStopExit \/ Exit

SpecArmed == InitArmed /\ [][NextArmed]_vars

\* Equity sessions from the scan on, and options sessions from an armed
\* confirmation on.
InitSession == Init \/ InitArmed

SpecSession == InitSession /\ [][Next]_vars

-----------------------------------------------------------------------------
(* Claims about the position lifecycle *)

\* +1 for a long position, -1 for a short one: the sign of the entry order, or
\* of the option quantity in options mode.
PosDir(s) ==
    IF sec[s].entry_ticket # None
    THEN (IF orders[sec[s].entry_ticket].quantity > 0 THEN 1 ELSE -1)
    ELSE (IF sec[s].option_qty > 0 THEN 1 ELSE -1)

\* C1: from the moment movedToBreakeven is true until the position is idle
\* again, no step (bar update or order event, take-profit fill included)
\* loosens currentStop: it never decreases for a long, never increases for a
\* short.
C1_StopNeverLoosens ==
    [][\A s \in Symbols :
          (sec[s].moved_to_breakeven /\ sec'[s].moved_to_breakeven) =>
              IF PosDir(s) > 0
              THEN sec'[s].current_stop >= sec[s].current_stop
              ELSE sec'[s].current_stop <= sec[s].current_stop]_vars

\* The step in which the entry order of s fills.
EntryFillStep(s) ==
    /\ sec[s].entry_ticket # None
    /\ orders[sec[s].entry_ticket].status = "Submitted"
    /\ sec[s].entry_ticket \in DOMAIN orders'
    /\ orders'[sec[s].entry_ticket].status = "Filled"

\* The step in which on_data enters the option position of s.
OptionEntryStep(s) ==
    cfg.use_options /\ sec[s].option_long = None /\ sec'[s].option_long # None

WorkingStops(s) ==
    {i \in DOMAIN orders : /\ orders[i].symbol = s
                           /\ orders[i].tag = "ATR Stop"
                           /\ orders[i].status = "Submitted"}

\* The take-profit of the position of s has filled.
TpFilled(s) == sec[s].tp_ticket # None /\ orders[sec[s].tp_ticket].status = "Filled"

C5_StopFillResets ==
    \A s \in Symbols :
        (lastEvent.name = "stop_filled" /\ lastEvent.symbol = s) =>
            /\ \A i \in DOMAIN orders :
                  (orders[i].symbol = s /\ orders[i].tag = "TakeProfit_1R")
                      => orders[i].status \in {"Filled", "Canceled"}
            /\ sec[s].entry_ticket = None
            /\ sec[s].stop_loss_ticket = None
            /\ sec[s].tp_ticket = None
            /\ sec[s].entry_price = None
            /\ sec[s].initial_stop = None
            /\ sec[s].current_stop = None
            /\ sec[s].oneR = None
            /\ ~sec[s].moved_to_breakeven
            /\ sec[s].entry_time = None
            /\ sec[s].high_water = None
            /\ sec[s].low_water = None
            /\ sec[s].last_stop_update_time = None

\* A stop fill has just been handled and the take-profit it found working is
\* cancelled.
C5_Witness ==
    \E s \in Symbols :
        /\ lastEvent.name = "stop_filled" /\ lastEvent.symbol = s
        /\ holdings[s] = 0
        /\ \E i \in DOMAIN orders :
              /\ orders[i].symbol = s
              /\ orders[i].tag = "TakeProfit_1R"
              /\ orders[i].status = "Canceled"

\* The working entry orders of s.
WorkingEntries(s) ==
    {i \in DOMAIN orders : /\ orders[i].symbol = s
                           /\ orders[i].tag \in {"Entry", "Entry_Retry50"}
                           /\ orders[i].status = "Submitted"}

\* C6: in every reachable state each symbol has at most one working entry
\* order.
C6_OneWorkingEntry ==
    \A s \in Symbols : Cardinality(WorkingEntries(s)) <= 1

\* An entry order working in the second session, placed by the scan that
\* followed the first end-of-day event.
C6_Witness ==
    \E s \in Symbols :
        /\ DateOf(time) > 1
        /\ scan.date = DateOf(time)
        /\ Cardinality(WorkingEntries(s)) = 1

-----------------------------------------------------------------------------
(* Claims about levels, stop updates and sizing *)

\* The levels of candidate o follow the breakout formulas, in hundredths of a
\* cent so that the fractional parameters stay exact.
LevelsFollowFormula(o) ==
    LET s == o.equity
        a == atr[s].value
    IN  IF o.dir > 0
        THEN /\ 100 * o.entry_price = 100 * HighBySymbol(scan.tail, s) + cfg.entry_buffer_atr * a
             /\ 100 * o.stop_price = 100 * o.entry_price - cfg.stop_loss_atr_distance * a
        ELSE /\ 100 * o.entry_price = 100 * LowBySymbol(scan.tail, s) - cfg.entry_buffer_atr * a
             /\ 100 * o.stop_price = 100 * o.entry_price + cfg.stop_loss_atr_distance * a

\* C11: every candidate's entry is OR-high + buffer*ATR (long) or OR-low -
\* buffer*ATR (short) and its stop is entry -/+ distance*ATR; the entry order
\* rests at that entry level, the initial stop (or the pending levels in options
\* mode) is that stop level, and the protective stop is placed there.
C11_BreakoutLevels ==
    (scan.ran /\ scan.date = DateOf(time)) =>
        \A i \in DOMAIN scan.orders :
            LET o == scan.orders[i]
                s == o.equity
            IN  /\ (atr[s].value > 0 /\ price[s] > 0) => LevelsFollowFormula(o)
                /\ (HighBySymbol(scan.tail, s) = 10200 /\ atr[s].value = 200 /\ o.dir > 0
                       /\ cfg.entry_buffer_atr = 10 /\ cfg.stop_loss_atr_distance = 50)
                      => (o.entry_price = 10220 /\ o.stop_price = 10120)
                /\ sec[s].entry_ticket # None =>
                      /\ orders[sec[s].entry_ticket].price = o.entry_price
                      /\ (orders[sec[s].entry_ticket].quantity > 0) = (o.dir > 0)
                      /\ sec[s].initial_stop = o.stop_price
                /\ sec[s].pending_dir # 0 =>
                      /\ sec[s].pending_entry = o.entry_price
                      /\ sec[s].pending_stop = o.stop_price
                /\ (lastEvent.name = "entry_filled" /\ lastEvent.symbol = s) =>
                      orders[sec[s].stop_loss_ticket].price = o.stop_price

\* A short entry has filled and its protective stop rests at the scan's stop
\* level, above the entry level.
C11_Witness ==
    /\ scan.ran /\ scan.date = DateOf(time)
    /\ \E i \in DOMAIN scan.orders :
          LET o == scan.orders[i]
          IN  /\ o.dir < 0
              /\ lastEvent.name = "entry_filled" /\ lastEvent.symbol = o.equity
              /\ orders[sec[o.equity].stop_loss_ticket].price = o.stop_price
              /\ o.stop_price > o.entry_price

\* An on_data step.
BarUpdateStep == ~bar_seen /\ bar_seen'

\* An equity position that on_data manages: invested, with its tickets, risk
\* unit and entry price.
OpenEquityPosition(s) ==
    /\ ~cfg.use_options
    /\ s \in SeqToSet(selected)
    /\ holdings[s] # 0
    /\ sec[s].entry_ticket # None /\ sec[s].stop_loss_ticket # None
    /\ sec[s].oneR # None /\ sec[s].oneR # 0 /\ sec[s].entry_price # None

\* direction * (price - entryPrice), times 100.
FavorableMove100(s) ==
    (IF holdings[s] > 0 THEN 1 ELSE -1) * (price[s] - sec[s].entry_price) * 100

\* C12: a bar update on an open position that is not at breakeven moves the
\* stop to the entry price and sets movedToBreakeven exactly when the favorable
\* move is at least breakevenTriggerR * oneR, whatever the stop distance, the
\* throttle threshold and the tick size.
C12_BreakevenAtTrigger ==
    [][\A s \in Symbols :
          (BarUpdateStep /\ OpenEquityPosition(s) /\ ~sec[s].moved_to_breakeven) =>
              IF FavorableMove100(s) >= cfg.breakeven_trigger_R * sec[s].oneR
              THEN /\ sec'[s].moved_to_breakeven
                   /\ sec'[s].current_stop = sec[s].entry_price
                   /\ orders'[sec[s].stop_loss_ticket].price = sec[s].entry_price
              ELSE /\ ~sec'[s].moved_to_breakeven
                   /\ sec'[s].current_stop = sec[s].current_stop]_vars

\* A step that changes the level of the existing stop of s.
StopModifiedStep(s) ==
    /\ sec[s].current_stop # None
    /\ sec'[s].current_stop # None
    /\ sec'[s].current_stop # sec[s].current_stop

\* C13: a position's stop is modified at most once per bar timestamp, whatever
\* the order of the bar update and the order events of that timestamp: no step
\* changes the stop level when a modification already carries the current
\* timestamp.
C13_OneStopChangePerTimestamp ==
    [][\A s \in Symbols :
          StopModifiedStep(s) => sec[s].last_stop_update_time # time]_vars

\* max(minTicks * tickSize, updateThresholdATR * ATR) for s.
ThrottleDisplacement(s) ==
    Max2(cfg.trail_min_ticks * TickSize, Pct(atr[s].value, cfg.trail_update_threshold_atr))

\* C14: a step that modifies an existing stop (changes currentStop or stamps
\* lastStopUpdateTime) displaces the stop level by at least
\* max(minTicks*tickSize, updateThresholdATR*ATR); a smaller proposed change
\* leaves both fields as they were.
C14_StopChangeAtLeastThreshold ==
    [][\A s \in Symbols :
          (/\ sec[s].current_stop # None
           /\ sec'[s].current_stop # None
           /\ \/ sec'[s].current_stop # sec[s].current_stop
              \/ sec'[s].last_stop_update_time # sec[s].last_stop_update_time)
          => Abs(sec'[s].current_stop - sec[s].current_stop) >= ThrottleDisplacement(s)]_vars

C17_MarginBudgetPerCandidate ==
    /\ cfg.margin_buffer = 90 => PerOrderMargin(100000, 4) = 22500
    /\ \A k \in DOMAIN scan.sizing :
          LET z    == scan.sizing[k]
              free == portfolio.margin_remaining - (z.index - 1) * portfolio.margin_drop
              left == z.total - z.index + 1
          IN  /\ z.index = k /\ z.total = Len(scan.orders)
              /\ scan.orders[k].equity = z.symbol
              /\ z.free_margin = free
              /\ z.per_order_margin = (free * cfg.margin_buffer) \div (100 * left)
              /\ z.max_qty_by_margin
                    = Max2(0, (free * cfg.margin_buffer * cfg.leverage)
                                  \div (100 * left * z.entry_price))
              /\ Abs(z.qty) <= z.max_qty_by_margin

\* The second of two candidates was sized down to its margin cap after the
\* free margin had fallen during the scan.
C17_Witness ==
    /\ scan.ran /\ portfolio.margin_drop > 0
    /\ \E k \in DOMAIN scan.sizing :
          /\ scan.sizing[k].index = 2 /\ scan.sizing[k].total = 2
          /\ scan.sizing[k].qty # 0
          /\ Abs(scan.sizing[k].qty) = scan.sizing[k].max_qty_by_margin
          /\ Abs(scan.sizing[k].qty) < Min2(scan.sizing[k].risk_qty, scan.sizing[k].limit_qty)

\* The stop-market entry orders of symbol s in the order table.
EntryOrdersOf(s) ==
    {id \in DOMAIN orders : orders[id].symbol = s /\ orders[id].type = "StopMarket"}

\* C18: the magnitude of a candidate's entry quantity is the least of
\* trunc((riskFraction * portfolioValue / maxPositions) / |entry - stop|), the
\* allocation cap and the margin cap, its sign is the trade direction, and a
\* zero quantity submits no order and raises no error.
C18_EntryQuantity ==
    \A k \in DOMAIN scan.sizing :
        LET z    == scan.sizing[k]
            risk == (cfg.stop_loss_risk_size * portfolio.total_portfolio_value)
                        \div (100 * cfg.max_positions * Abs(z.entry_price - z.stop_price))
            cap  == (portfolio.total_portfolio_value \div cfg.max_positions) \div price[z.symbol]
        IN  /\ z.entry_price # z.stop_price
            /\ Abs(z.qty) = Min2(risk, Min2(cap, z.max_qty_by_margin))
            /\ z.qty > 0 => z.dir > 0
            /\ z.qty < 0 => z.dir < 0
            /\ z.qty = 0 => /\ z.attempts = <<>> /\ z.outcome = "skipped"
                            /\ EntryOrdersOf(z.symbol) = {}
                            /\ sec[z.symbol].entry_ticket = None
            /\ z.outcome = "placed" =>
                   /\ sec[z.symbol].entry_ticket \in EntryOrdersOf(z.symbol)
                   /\ orders[sec[z.symbol].entry_ticket].quantity = z.qty

\* A scan placed one candidate below its risk-based quantity and skipped
\* another whose quantity came to zero.
C18_Witness ==
    /\ scan.ran /\ phase = "scanned"
    /\ \E k \in DOMAIN scan.sizing :
          /\ scan.sizing[k].qty = 0 /\ scan.sizing[k].risk_qty > 0
    /\ \E k \in DOMAIN scan.sizing :
          /\ scan.sizing[k].outcome = "placed"
          /\ Abs(scan.sizing[k].qty) < scan.sizing[k].risk_qty

\* C19: a failed entry submission is retried exactly once, with
\* trunc(|qty| * retryFraction) units of the same sign; no candidate is
\* submitted more than twice, and a retry quantity of zero submits nothing.
C19_OneSmallerRetry ==
    \A k \in DOMAIN scan.sizing :
        LET z       == scan.sizing[k]
            smaller == ((Abs(z.qty) * cfg.retry_fraction) \div 100)
                           * (IF z.qty > 0 THEN 1 ELSE -1)
            placed  == {id \in EntryOrdersOf(z.symbol) : orders[id].status = "Submitted"}
        IN  /\ Len(z.attempts) <= 2
            /\ z.qty # 0 => Len(z.attempts) >= 1 /\ z.attempts[1] = z.qty
            /\ (z.qty # 0 /\ submit_fails[z.symbol] = 0) =>
                   /\ z.attempts = <<z.qty>>
                   /\ \E id \in placed : orders[id].quantity = z.qty /\ orders[id].tag = "Entry"
            /\ (z.qty # 0 /\ submit_fails[z.symbol] > 0 /\ smaller # 0) =>
                   /\ z.attempts = <<z.qty, smaller>>
                   /\ \A id \in placed : orders[id].quantity = smaller
            /\ (z.qty # 0 /\ submit_fails[z.symbol] = 1 /\ smaller # 0) =>
                   \E id \in placed : orders[id].tag = "Entry_Retry50"
            /\ (z.qty # 0 /\ submit_fails[z.symbol] > 0 /\ smaller = 0) =>
                   /\ z.attempts = <<z.qty>>
                   /\ placed = {}
            /\ Cardinality(placed) <= 1

\* A scan whose submissions failed retried one candidate with half its
\* quantity and gave up another whose retry quantity came to zero.
C19_Witness ==
    /\ scan.ran
    /\ \E k \in DOMAIN scan.sizing :
          /\ scan.sizing[k].outcome = "retried"
          /\ Len(scan.sizing[k].attempts) = 2
          /\ Abs(scan.sizing[k].attempts[2]) < Abs(scan.sizing[k].attempts[1])
    /\ \E k \in DOMAIN scan.sizing :
          /\ scan.sizing[k].outcome = "abandoned"

\* C20: after a scan every candidate of the batch has been processed, and
\* every abandoned one (zero quantity, zero retry quantity, or a rejected order
\* whose retry failed too) has no resting entry order and idle position fields.
C20_AbandonedCandidatesIdle ==
    (scan.ran /\ ~cfg.use_options) =>
        /\ \A i \in DOMAIN scan.orders :
              \E k \in DOMAIN scan.sizing : scan.sizing[k].index = i
        /\ \A k \in DOMAIN scan.sizing :
              LET z == scan.sizing[k]
              IN  z.outcome \in {"skipped", "abandoned", "raised"} =>
                      /\ \A id \in EntryOrdersOf(z.symbol) : orders[id].status # "Submitted"
                      /\ sec[z.symbol] = ResetTickets(sec[z.symbol])

-----------------------------------------------------------------------------
(* Claims about the session boundaries *)

\* The step of the time-stop event.
TimeStopStep == phase = "scanned" /\ phase' = "late"

\* A tracked position that is open and was entered in the current session.
OpenToday(s) ==
    /\ s \in SeqToSet(selected)
    /\ (IF cfg.use_options THEN HasPos(sec[s], option_holdings) ELSE holdings[s] # 0)
    /\ sec[s].entry_time # None
    /\ DateOf(sec[s].entry_time) = DateOf(time)

\* The market orders for s that the step submits.
NewMarketOrders(s) ==
    {id \in DOMAIN orders' \ DOMAIN orders :
        orders'[id].symbol = s /\ orders'[id].type = "Market"}

\* The option legs of s are flat after the step.
LegsFlatAfter(s) ==
    /\ sec[s].option_long # None => option_holdings'[sec[s].option_long] = 0
    /\ sec[s].option_short # None => option_holdings'[sec[s].option_short] = 0

\* C21: the time-stop event flattens every tracked position that is open, was
\* entered in the current session and is not at breakeven (equity: one
\* liquidating market order for the whole holding; options: every leg closed),
\* and no position is flattened twice: a market order only ever closes a
\* holding that is still open.
C21_TimeStopFlattens ==
    [][/\ TimeStopStep =>
             \A s \in Symbols :
                 (OpenToday(s) /\ ~sec[s].moved_to_breakeven) =>
                     IF cfg.use_options
                     THEN LegsFlatAfter(s)
                     ELSE /\ holdings'[s] = 0
                          /\ Cardinality(NewMarketOrders(s)) = 1
                          /\ \A id \in NewMarketOrders(s) :
                                 /\ orders'[id].quantity = -holdings[s]
                                 /\ orders'[id].status = "Filled"
       /\ \A s \in Symbols :
             NewMarketOrders(s) # {} =>
                 (holdings[s] # 0 /\ Cardinality(NewMarketOrders(s)) = 1)]_vars

\* The time stop has just liquidated a position entered today that had not
\* reached breakeven.
C21_Witness ==
    /\ lastEvent.name = "time_stop"
    /\ \E s \in SeqToSet(selected) :
          /\ holdings[s] = 0
          /\ sec[s].entry_time # None /\ DateOf(sec[s].entry_time) = DateOf(time)
          /\ ~sec[s].moved_to_breakeven
          /\ \E id \in DOMAIN orders :
                /\ orders[id].symbol = s /\ orders[id].type = "Market"
                /\ orders[id].status = "Filled"

\* C22: the time-stop event leaves a position at breakeven as it was: its
\* holdings, option legs, orders and position fields are unchanged.
C22_TimeStopSparesBreakeven ==
    [][TimeStopStep =>
          \A s \in Symbols :
              sec[s].moved_to_breakeven =>
                  /\ sec'[s] = sec[s]
                  /\ holdings'[s] = holdings[s]
                  /\ \A c \in ContractIds :
                         (c = sec[s].option_long \/ c = sec[s].option_short)
                             => option_holdings'[c] = option_holdings[c]
                  /\ \A id \in DOMAIN orders' :
                         orders'[id].symbol = s
                             => (id \in DOMAIN orders /\ orders'[id] = orders[id])]_vars

\* The time stop has passed over an open position at breakeven whose
\* protective stop is still working.
C22_Witness ==
    /\ lastEvent.name = "time_stop"
    /\ \E s \in SeqToSet(selected) :
          /\ holdings[s] # 0
          /\ sec[s].moved_to_breakeven
          /\ sec[s].entry_time # None /\ DateOf(sec[s].entry_time) = DateOf(time)
          /\ WorkingStops(s) # {}

\* The step of the end-of-day event.
ExitStep == phase = "late" /\ phase' = "closed"

\* The lifecycle state of e is idle: position fields, pending confirmation and
\* option legs are as on_securities_changed left them.
LifecycleIdle(e) ==
    e = [NewSecurity EXCEPT !.relative_volume = e.relative_volume,
                            !.confirm_ready_time = e.confirm_ready_time]

\* C23: after the end-of-day event every symbol that was tracked is flat (its
\* holding and its option legs closed), all of its lifecycle state is idle
\* (position fields, pending direction, levels and confirmation counter, option
\* leg ids and quantity), and no symbol is tracked any more.
C23_EndOfDayClearsEverything ==
    [][ExitStep =>
          /\ selected' = <<>>
          /\ \A s \in SeqToSet(selected) :
                /\ holdings'[s] = 0
                /\ LegsFlatAfter(s)
                /\ LifecycleIdle(sec'[s])]_vars

\* The step fully exits the position of s during the session: an equity holding
\* goes flat, or the invested option legs are closed, before the end-of-day
\* event.
FullExitStep(s) ==
    /\ ~ExitStep
    /\ IF cfg.use_options
       THEN HasPos(sec[s], option_holdings) /\ LegsFlatAfter(s)
       ELSE holdings[s] # 0 /\ holdings'[s] = 0

\* C24: the event that fully exits a position during the session (protective
\* stop fill, time-stop flattening, synthetic option stop) resets its Position
\* record: entryPrice, initialStop, currentStop, oneR, entryTime and the order
\* tickets are empty and movedToBreakeven is false right after that event.
C24_FullExitResetsPosition ==
    [][\A s \in Symbols :
          FullExitStep(s) => sec'[s] = ResetTickets(sec'[s])]_vars

-----------------------------------------------------------------------------
(* Claims about the options confirmation *)

\* The underlying's price is beyond the pending entry level of s.
BeyondEntryLevel(s) ==
    IF sec[s].pending_dir > 0 THEN price[s] >= sec[s].pending_entry
    ELSE price[s] <= sec[s].pending_entry

\* C25: in options mode no step opens an option position or increments the
\* confirmation counter at a time earlier than the symbol's confirmReadyTime.
C25_NoEntryBeforeReadyTime ==
    [][\A s \in Symbols :
          (/\ cfg.use_options
           /\ sec[s].confirm_ready_time # None
           /\ time < sec[s].confirm_ready_time)
          => /\ ~OptionEntryStep(s)
             /\ sec'[s].confirm_count <= sec[s].confirm_count
             /\ option_holdings' = option_holdings]_vars

\* A bar update has seen the underlying beyond the entry level of an armed
\* confirmation before its ready time, and has left the counter at zero.
C25_Witness ==
    /\ lastEvent.name = "on_data"
    /\ \E s \in SeqToSet(selected) :
          /\ sec[s].pending_dir # 0 /\ sec[s].pending_entry # None
          /\ time < sec[s].confirm_ready_time
          /\ BeyondEntryLevel(s)
          /\ sec[s].confirm_count = 0 /\ sec[s].option_long = None

\* The open of the session that t belongs to: minute 0 of its date.
SessionOpen(t) == DateOf(t) * DayTicks

\* C26: a scan that arms a pending confirmation sets its confirmReadyTime to
\* the open of the session in which the scan runs plus the confirmation delay.
C26_ReadyTimeInScanSession ==
    [][(cfg.use_options /\ phase = "open" /\ phase' # "open") =>
          \A s \in scan'.placed :
              sec'[s].confirm_ready_time = SessionOpen(time) + cfg.confirm_delay_min]_vars

\* An armed confirmation of a tracked symbol whose ready time has come.
ReadyToConfirm(s) ==
    /\ cfg.use_options
    /\ s \in SeqToSet(selected)
    /\ sec[s].pending_dir # 0 /\ sec[s].pending_entry # None
    /\ sec[s].confirm_ready_time # None /\ time >= sec[s].confirm_ready_time

\* C27: on each bar at or after confirmReadyTime the confirmation counter goes
\* up by one when the underlying is beyond the entry level (>= for a long, <=
\* for a short) and back to zero otherwise, and an option entry is made only on
\* a bar on which the counter reaches the configured number of confirming bars.
C27_ConsecutiveConfirmation ==
    [][\A s \in Symbols :
          /\ (BarUpdateStep /\ ReadyToConfirm(s)) =>
                LET count == IF BeyondEntryLevel(s) THEN sec[s].confirm_count + 1 ELSE 0
                IN  IF OptionEntryStep(s)
                    THEN count >= cfg.confirm_bars /\ count >= 1
                    ELSE sec'[s].confirm_count = count
          /\ OptionEntryStep(s) =>
                (BarUpdateStep /\ ReadyToConfirm(s) /\ BeyondEntryLevel(s))]_vars

\* An option position has just been entered on the second of two consecutive
\* confirming bars.
C27_Witness ==
    /\ lastEvent.name = "on_data"
    /\ cfg.confirm_bars = 2
    /\ \E s \in SeqToSet(selected) :
          /\ sec[s].option_long # None
          /\ sec[s].entry_time = time
          /\ sec[s].pending_dir = 0 /\ sec[s].confirm_count = 0

\* The right of the option that the pending direction of s calls for.
PendingRight(s) == IF sec[s].pending_dir > 0 THEN "Call" ELSE "Put"

\* Contract c has the right r and passes the liquidity filter: bid > 0,
\* ask > 0, open interest at least the minimum when available, and a spread of
\* at most the maximum number of ticks.
Qualifying(c, r) ==
    /\ c.right = r
    /\ c.bid > 0 /\ c.ask > 0
    /\ (c.open_interest = None \/ c.open_interest >= cfg.option_min_oi)
    /\ c.ask - c.bid <= cfg.option_max_spread_ticks * TickSize

\* The contracts of the chain of s that qualify for its pending direction.
QualifyingIn(s) ==
    {i \in DOMAIN option_chain[s] : Qualifying(option_chain[s][i], PendingRight(s))}

\* C28: when the confirmation count is reached but the chain is missing or no
\* contract passes the filters, the bar places no order, keeps the counter (it
\* is not reset), leaves the pending confirmation armed and writes no position
\* field, so that the next bar tries again.
C28_NoContractKeepsPending ==
    [][\A s \in Symbols :
          LET count == IF BeyondEntryLevel(s) THEN sec[s].confirm_count + 1 ELSE 0
          IN  (/\ BarUpdateStep /\ ReadyToConfirm(s)
               /\ count >= cfg.confirm_bars /\ count >= 1
               /\ QualifyingIn(s) = {})
              => /\ option_holdings' = option_holdings
                 /\ orders' = orders
                 /\ sec'[s] = [sec[s] EXCEPT !.confirm_count = count]]_vars

\* A bar update has reached the confirmation count on a chain without a
\* qualifying contract: the confirmation is still armed, with its count.
C28_Witness ==
    /\ lastEvent.name = "on_data"
    /\ \E s \in SeqToSet(selected) :
          /\ sec[s].pending_dir # 0 /\ sec[s].pending_entry # None
          /\ time >= sec[s].confirm_ready_time
          /\ sec[s].confirm_count >= cfg.confirm_bars /\ sec[s].confirm_count >= 1
          /\ option_chain[s] # <<>> /\ QualifyingIn(s) = {}
          /\ sec[s].option_long = None /\ sec[s].entry_price = None

\* (days-to-expiry, |strike - spot|) of a is at most that of b,
\* lexicographically.
KeyAtMost(a, b, spot) ==
    \/ a.expiry - DateOf(time) < b.expiry - DateOf(time)
    \/ /\ a.expiry - DateOf(time) = b.expiry - DateOf(time)
       /\ Abs(a.strike - spot) <= Abs(b.strike - spot)

\* Contract c is a contract of the chain with right r that passes the
\* liquidity filter and has the least key among all such contracts.
LeastQualifying(c, chain, r, spot) ==
    /\ \E i \in DOMAIN chain : chain[i] = c
    /\ Qualifying(c, r)
    /\ \A i \in DOMAIN chain : Qualifying(chain[i], r) => KeyAtMost(c, chain[i], spot)

ContractOf(s, id) ==
    CHOOSE c \in {option_chain[s][i] : i \in DOMAIN option_chain[s]} : c.id = id

\* C30: in debit-spread mode every option entry opens either two legs of the
\* same expiry, long the at-the-money leg and short the wing in equal size, or
\* the at-the-money leg alone; two legs of different expiries are never opened.
C30_SpreadLegsShareExpiry ==
    [][\A s \in Symbols :
          (OptionEntryStep(s) /\ cfg.option_use_debit_spread) =>
              LET long  == sec'[s].option_long
                  short == sec'[s].option_short
                  qty   == sec'[s].option_qty
              IN  /\ option_holdings'[long] = option_holdings[long] + qty
                  /\ qty # 0
                  /\ IF short = None
                     THEN \A c \in ContractIds \ {long} :
                              option_holdings'[c] = option_holdings[c]
                     ELSE /\ short # long
                          /\ ContractOf(s, short).expiry = ContractOf(s, long).expiry
                          /\ option_holdings'[short] = option_holdings[short] - qty
                          /\ \A c \in ContractIds \ {long, short} :
                                 option_holdings'[c] = option_holdings[c]]_vars

\* In debit-spread mode an entry has just opened the at-the-money leg alone,
\* on a chain whose next liquid strike is listed for another expiry.
C30_Witness ==
    /\ lastEvent.name = "on_data"
    /\ cfg.option_use_debit_spread
    /\ \E s \in SeqToSet(selected) :
          /\ sec[s].option_long # None /\ sec[s].option_short = None
          /\ sec[s].entry_time = time
          /\ option_holdings[sec[s].option_long] = sec[s].option_qty
          /\ \E i \in DOMAIN option_chain[s] :
                LET c == option_chain[s][i]
                    l == ContractOf(s, sec[s].option_long)
                IN  /\ Qualifying(c, l.right)
                    /\ c.expiry # l.expiry
                    /\ IF sec[s].option_qty > 0 THEN c.strike > l.strike
                       ELSE c.strike < l.strike

-----------------------------------------------------------------------------
(* Claims about the option legs and the recorded risk unit *)

-----------------------------------------------------------------------------
(* Claims about the synthetic option stop *)

\* The underlying of s is at or beyond the given stop level, on the side that
\* loses for the option position of s.
CrossedStop(s, stop) ==
    /\ stop # None
    /\ (IF sec[s].option_qty > 0 THEN price[s] <= stop ELSE price[s] >= stop)

\* C33: in options mode, on every bar update on which a tracked symbol has an
\* open option position and the underlying is at or beyond the current
\* synthetic stop (price <= stop for a long, price >= stop for a short, the
\* stop being the level this update leaves, which is never looser than the
\* level it found), every invested leg is closed in that update and the leg
\* ids are cleared; when the price has not crossed the stop, the update closes
\* nothing and keeps the leg ids.
C33_SyntheticStopClosesLegs ==
    [][\A s \in Symbols :
          (/\ BarUpdateStep /\ cfg.use_options
           /\ s \in SeqToSet(selected)
           /\ HasPos(sec[s], option_holdings))
          => /\ CrossedStop(s, sec[s].current_stop) => CrossedStop(s, sec'[s].current_stop)
             /\ IF CrossedStop(s, sec'[s].current_stop)
                THEN /\ LegsFlatAfter(s)
                     /\ sec'[s].option_long = None
                     /\ sec'[s].option_short = None
                ELSE /\ sec'[s].option_long = sec[s].option_long
                     /\ sec'[s].option_short = sec[s].option_short
                     /\ option_holdings' = option_holdings]_vars

\* A bar update has just closed the legs of an option position whose stop had
\* been moved to breakeven, with the underlying exactly on that stop.
C33_Witness ==
    /\ lastEvent.name = "on_data"
    /\ \E s \in SeqToSet(selected) :
          /\ sec[s].entry_time # None /\ sec[s].entry_time < time
          /\ sec[s].option_long = None
          /\ sec[s].moved_to_breakeven
          /\ sec[s].current_stop = price[s]
          /\ \A c \in ContractIds : option_holdings[c] = 0

-----------------------------------------------------------------------------
(* Claims about the orders of an equity position *)

\* The orders with the given tag that the step submits for s.
NewOrdersTagged(s, tag) ==
    {id \in DOMAIN orders' \ DOMAIN orders :
        orders'[id].symbol = s /\ orders'[id].tag = tag}

\* C35: the step that handles an equity entry fill places one protective stop
\* for minus the full entry quantity at initialStop, and a take-profit limit
\* order if and only if the entry size is at least 2, for floor(|qty| / 2)
\* units against the entry at entryPrice + oneR for a long (entryPrice - oneR
\* for a short), which leaves at least 1 unit after the take-profit fill; it
\* places nothing else.
C35_EntryFillOrders ==
    [][\A s \in Symbols :
          EntryFillStep(s) =>
              LET q     == orders[sec[s].entry_ticket].quantity
                  sign  == IF q > 0 THEN 1 ELSE -1
                  stops == NewOrdersTagged(s, "ATR Stop")
                  tps   == NewOrdersTagged(s, "TakeProfit_1R")
              IN  /\ DOMAIN orders' \ DOMAIN orders = stops \cup tps
                  /\ Cardinality(stops) = 1
                  /\ \A id \in stops :
                         /\ orders'[id].type = "StopMarket"
                         /\ orders'[id].status = "Submitted"
                         /\ orders'[id].quantity = -q
                         /\ orders'[id].price = sec'[s].initial_stop
                         /\ sec'[s].stop_loss_ticket = id
                  /\ (tps # {}) <=> (Abs(q) >= 2)
                  /\ Cardinality(tps) <= 1
                  /\ \A id \in tps :
                         /\ orders'[id].type = "Limit"
                         /\ orders'[id].status = "Submitted"
                         /\ orders'[id].quantity = -sign * (Abs(q) \div 2)
                         /\ orders'[id].price = sec'[s].entry_price + sign * sec'[s].oneR
                         /\ Abs(q) - Abs(orders'[id].quantity) >= 1
                         /\ sec'[s].tp_ticket = id
                  /\ tps = {} => sec'[s].tp_ticket = None]_vars

\* An entry of 3 units has just filled: the stop covers 3 units and the
\* take-profit 1 unit.
C35_Witness ==
    \E s \in Symbols :
        /\ lastEvent.name = "entry_filled" /\ lastEvent.symbol = s
        /\ Abs(holdings[s]) = 3
        /\ sec[s].stop_loss_ticket # None /\ sec[s].tp_ticket # None
        /\ orders[sec[s].stop_loss_ticket].quantity = -holdings[s]
        /\ Abs(orders[sec[s].tp_ticket].quantity) = 1

\* C39: in equity mode, in whatever order the fill events of the protective
\* stop and of the take-profit of a position arrive (a take-profit fill that
\* arrives after the stop fill has been handled included), the exits never
\* over-close it: non-zero holdings always have the sign of the position's
\* entry order, and after a protective-stop fill has been handled the holdings
\* are zero.
C39_ExitsNeverOverClose ==
    ~cfg.use_options =>
        \A s \in Symbols :
            /\ holdings[s] # 0 =>
                  \E k \in DOMAIN orders :
                      /\ orders[k].symbol = s
                      /\ orders[k].tag \in {"Entry", "Entry_Retry50"}
                      /\ orders[k].status = "Filled"
                      /\ holdings[s] * orders[k].quantity > 0
            /\ (lastEvent.name = "stop_filled" /\ lastEvent.symbol = s) => holdings[s] = 0

-----------------------------------------------------------------------------
(* Claims about the scan *)

\* The candidates of the last scan: the symbols of its order list.
Candidates == {scan.orders[i].equity : i \in DOMAIN scan.orders}

\* A scan that ran to its order loop on live data.
ScanSelected == scan.ran /\ scan.tail # <<>> /\ ~is_warming_up

\* C7: in one scan cycle the number of symbols that get an entry order or an
\* armed pending confirmation is at most maxPositions.
C7_SelectedAtMostMaxPositions ==
    scan.ran => Cardinality(scan.placed) <= cfg.max_positions

\* C8: every symbol that gets an entry order or an armed pending confirmation
\* has a defined RVOL that is strictly above the threshold.
C8_SelectedRvolAboveThreshold ==
    scan.ran => \A s \in scan.placed : RvolAbove(sec[s].relative_volume)

\* A symbol that passes every qualification filter on the scanner's own figures.
Qualifies(s) ==
    /\ s \in FrameSymbols(scan.tail)
    /\ RvolAbove(sec[s].relative_volume)
    /\ s \in UpSymbols(scan.tail) \cup (IF cfg.long_only THEN {} ELSE DownSymbols(scan.tail))
    /\ PassesFilters(s, scan.tail, daily_close)

\* C9: the candidates of a scan are exactly the maxPositions highest-RVOL
\* symbols among those that pass all qualification filters.
C9_SelectedAreTopByRvol ==
    ScanSelected =>
        LET Q == {s \in Symbols : Qualifies(s)}
        IN  /\ Candidates \subseteq Q
            /\ Cardinality(Candidates) = Min2(cfg.max_positions, Cardinality(Q))
            /\ \A a \in Q \ Candidates : \A b \in Candidates :
                   ~RvolLess(sec[b].relative_volume, sec[a].relative_volume)

\* The opening-range bars of a symbol: its own last N minute bars.
OwnWindow(s) == FrameTail(minute_history[s], cfg.opening_range_minutes)

\* C10: for every universe symbol with bars in the opening-range window, the
\* scanner's OR-high, OR-low, OR-open, OR-close and window volume come from
\* that symbol's own N opening-range bars.
C10_OpeningRangeFromOwnBars ==
    ScanSelected =>
        \A s \in universe :
            Len(minute_history[s]) >= cfg.opening_range_minutes =>
                LET w == OwnWindow(s)
                IN  /\ s \in FrameSymbols(scan.tail)
                    /\ HighBySymbol(scan.tail, s) = SetMax({w[i].high : i \in DOMAIN w})
                    /\ LowBySymbol(scan.tail, s) = SetMin({w[i].low : i \in DOMAIN w})
                    /\ OpenBySymbol(scan.tail, s) = w[1].open
                    /\ CloseBySymbol(scan.tail, s) = w[Len(w)].close
                    /\ VolumeSum(scan.tail, s) = SeqSum([i \in DOMAIN w |-> w[i].volume])

-----------------------------------------------------------------------------
(* Claims about a scan's batch of candidates *)

\* The step of the scan event.
ScanStep == phase = "open" /\ phase' # "open"

\* The scan's loop has taken up candidate t: it is in the order list and
\* tracked, and it has been sized (equity) or armed (options).
Processed(t) ==
    /\ t \in Candidates
    /\ t \in SeqToSet(selected)
    /\ IF cfg.use_options THEN sec[t].pending_dir # 0
       ELSE \E k \in DOMAIN scan.sizing : scan.sizing[k].symbol = t

\* C34: a scan whose minute history for the opening-range window is empty
\* changes nothing (no order, no armed confirmation, the tracked list, every
\* symbol's state and the volume baselines as they were); and a symbol whose
\* ATR is not ready gets no order and no armed confirmation while every other
\* qualifying symbol of the same scan is still processed.
C34_MissingDataPolicy ==
    [][ScanStep =>
          /\ (\A s \in universe : minute_history[s] = <<>>) =>
                UNCHANGED <<sec, selected, orders, holdings, option_holdings, volume_sma>>
          /\ \A s \in Symbols :
                ~atr[s].is_ready =>
                    /\ sec'[s].entry_ticket = None
                    /\ sec'[s].pending_dir = 0
                    /\ \A id \in DOMAIN orders' : orders'[id].symbol # s
                    /\ \A t \in Symbols \ {s} :
                           (ScanSelected' /\ Qualifies(t)') => Processed(t)']_vars

\* A scan has passed over a symbol of its window that is in play and moves
\* enough but whose ATR is still warming up, and has placed the other symbol.
C34_Witness ==
    /\ ScanSelected
    /\ \E s \in Symbols : \E t \in Symbols \ {s} :
          /\ ~atr[s].is_ready
          /\ s \in FrameSymbols(scan.tail)
          /\ RvolAbove(sec[s].relative_volume)
          /\ s \in UpSymbols(scan.tail)
          /\ atr[s].value * 100 >= cfg.atr_price_floor * price[s]
          /\ s \notin Candidates
          /\ t \in scan.placed

\* The place of x in the sequence q.
PositionIn(q, x) == CHOOSE i \in DOMAIN q : q[i] = x

\* C36: the order-placement loop takes the candidates of a scan in RVOL rank
\* order: any two candidates that the ranking step ranked are sized in the
\* order in which the ranking step produced them.
C36_OrdersInRvolRankOrder ==
    scan.ran =>
        \A i, j \in DOMAIN scan.orders :
            (/\ i < j
             /\ scan.orders[i].equity \in SeqToSet(scan.ranked)
             /\ scan.orders[j].equity \in SeqToSet(scan.ranked))
            => PositionIn(scan.ranked, scan.orders[i].equity)
                   < PositionIn(scan.ranked, scan.orders[j].equity)


\* The quantity of the entry order that the loop left resting for a sized
\* candidate, 0 if it left none.
PlacedQty(z) ==
    IF z.outcome = "placed" THEN z.qty
    ELSE IF z.outcome = "retried" THEN z.attempts[2]
    ELSE 0

RECURSIVE BatchNotional(_)
\* The sum over the placed entry orders of |qty| * entryPrice.
BatchNotional(sizing) ==
    IF sizing = <<>> THEN 0
    ELSE Abs(PlacedQty(Head(sizing))) * Head(sizing).entry_price + BatchNotional(Tail(sizing))

\* C37: over a whole batch in which no entry order fills before the loop ends
\* (the free margin reads the same in every pass), the placed entry orders
\* together need no more than marginBuffer times the free margin at the start
\* of the scan: sum |qty| * entryPrice / leverage <= marginBuffer * freeMargin.
C37_BatchWithinMarginBuffer ==
    (scan.ran /\ ~cfg.use_options /\ portfolio.margin_drop = 0) =>
        100 * BatchNotional(scan.sizing)
            <= cfg.margin_buffer * portfolio.margin_remaining * cfg.leverage

-----------------------------------------------------------------------------
(* Claims about re-entry within a session *)

\* A position in s has been opened and closed in this session: in equity mode
\* an entry order of s has filled and nothing is held; in options mode an entry
\* is on record and no leg is invested.
OpenedAndClosed(s) ==
    IF cfg.use_options
    THEN sec[s].entry_time # None /\ ~HasPos(sec[s], option_holdings)
    ELSE /\ holdings[s] = 0
         /\ \E k \in DOMAIN orders :
               /\ orders[k].symbol = s
               /\ orders[k].tag \in {"Entry", "Entry_Retry50"}
               /\ orders[k].status = "Filled"

\* The step submits an entry order for s or enters an option position of s.
EntrySubmitted(s) ==
    \/ \E id \in DOMAIN orders' \ DOMAIN orders :
          orders'[id].symbol = s /\ orders'[id].tag \in {"Entry", "Entry_Retry50"}
    \/ sec[s].entry_ticket # sec'[s].entry_ticket /\ sec'[s].entry_ticket # None
    \/ OptionEntryStep(s)
    \/ cfg.use_options /\ ~HasPos(sec[s], option_holdings)
                       /\ HasPos(sec'[s], option_holdings')

\* C40: within one session each symbol is entered at most once: once a
\* position in a symbol has been opened and then closed (protective-stop fill,
\* synthetic stop or time stop), no step before the next scan submits an entry
\* order or enters an option position for that symbol.
C40_NoReentryWithinSession ==
    [][\A s \in Symbols :
          (OpenedAndClosed(s) /\ ~ScanStep) => ~EntrySubmitted(s)]_vars

\* A long equity position of s was opened and then closed by its protective
\* stop; on_data has since run on a bar at or above the entry level, and no
\* entry order of s is resting.
C40_Witness ==
    \E s \in Symbols :
        /\ ~cfg.use_options
        /\ OpenedAndClosed(s)
        /\ lastEvent.name = "on_data"
        /\ \E k, j \in DOMAIN orders :
              /\ orders[k].symbol = s /\ orders[k].tag \in {"Entry", "Entry_Retry50"}
              /\ orders[k].status = "Filled" /\ orders[k].quantity > 0
              /\ price[s] >= orders[k].price
              /\ orders[j].symbol = s /\ orders[j].tag = "ATR Stop"
              /\ orders[j].status = "Filled"
        /\ \A i \in DOMAIN orders : orders[i].symbol = s => orders[i].status # "Submitted"

====
